---- MODULE Spec2Model ----
(***************************************************************************)
(* Task Tracker CLI (src/task_cli.py): the TaskTracker store, its load /   *)
(* save / backup lifecycle, its mutating commands and its queries.         *)
(*                                                                         *)
(* Text values (descriptions, categories, priorities, due dates) are       *)
(* sequences of one-character strings, so that strip(), lower() and the    *)
(* strptime/strftime round trip are computed character by character.       *)
(* Timestamps produced by _get_current_timestamp are clock ticks: the      *)
(* fixed-width format "%Y-%m-%d %H:%M:%S.%f" orders them as the clock does.*)
(***************************************************************************)
EXTENDS Integers, Sequences, FiniteSets, TLC

VARIABLES
    store,      \* self.tasks of the live TaskTracker: [tasks, next_id, metadata]
    file,       \* the data file: [kind, doc, mtime]
    backups,    \* the files backups/tasks_backup_*.json: set of [name, kind, doc, mtime]
    clock,      \* datetime.now(), in ticks
    out,        \* what the last command printed and the process exit status
    issued,     \* history: the ids handed out by add_task, in order
    nops,       \* history: number of _save_tasks calls
    faulty,     \* environment: the file operations that can fail in this run,
                \* "none", "write" (the data file; the user may also
                \* interrupt) or "backup" (the backup directory)
    shown,      \* the query the live process has made: its arguments and
                \* what it returned
    procs       \* the processes that run at the same time on the data file:
                \* for each its position and its own self.tasks

vars == <<store, file, backups, clock, out, issued, nops, faulty, shown, procs>>

(***************************************************************************)
(* Bounds of the model                                                     *)
(***************************************************************************)
MaxOps == 3
MaxClock == 1
TicksPerSecond == 2
\* for the runs that fill the backup directory
MaxSaves == 7
MaxTime == 12
MaxTasks == 1

(***************************************************************************)
(* config.py DEFAULT_CONFIG                                                *)
(***************************************************************************)
max_description_length == 1000
backup_count == 5
backup_enabled == TRUE
default_status == "todo"
valid_statuses == <<"todo", "in-progress", "done">>

s_low == <<"l", "o", "w">>
s_medium == <<"m", "e", "d", "i", "u", "m">>
s_high == <<"h", "i", "g", "h">>
valid_priorities == <<s_low, s_medium, s_high>>

s_general == <<"g", "e", "n", "e", "r", "a", "l">>
s_version == <<"2", ".", "0">>

(***************************************************************************)
(* Python values                                                           *)
(***************************************************************************)
\* Python's None; a one-element sequence whose element is no character, so
\* that it differs from every text and can be compared with one.
None == <<"None">>

\* bool(x) for x a str or None
Truthy(x) == x # None /\ x # <<>>

SeqToSet(s) == {s[i] : i \in 1..Len(s)}

SetMin(S) == CHOOSE x \in S : \A y \in S : x <= y

SetMax(S) == CHOOSE x \in S : \A y \in S : x >= y

Whitespace == {" ", "\t", "\n"}

RECURSIVE lskip(_, _)
\* first position at or after i that holds no whitespace, Len(s) + 1 if none
lskip(s, i) == IF i > Len(s) \/ s[i] \notin Whitespace THEN i ELSE lskip(s, i + 1)

RECURSIVE rskip(_, _)
\* last position at or before i that holds no whitespace, 0 if none
rskip(s, i) == IF i < 1 \/ s[i] \notin Whitespace THEN i ELSE rskip(s, i - 1)

\* str.strip()
strip(s) == SubSeq(s, lskip(s, 1), rskip(s, Len(s)))

lower_char(c) ==
    CASE c = "A" -> "a" [] c = "B" -> "b" [] c = "W" -> "w" [] c = "G" -> "g"
      [] OTHER -> c

\* str.lower()
lower(s) == [i \in 1..Len(s) |-> lower_char(s[i])]

(***************************************************************************)
(* datetime.strptime(s, "%Y-%m-%d") and .strftime("%Y-%m-%d")              *)
(***************************************************************************)
Digits == <<"0", "1", "2", "3", "4", "5", "6", "7", "8", "9">>

IsDigit(c) == c \in SeqToSet(Digits)

DigitVal(c) == (CHOOSE i \in 1..10 : Digits[i] = c) - 1

RECURSIVE NumVal(_)
NumVal(s) == IF s = <<>> THEN 0
             ELSE 10 * NumVal(SubSeq(s, 1, Len(s) - 1)) + DigitVal(s[Len(s)])

AllDigits(s) == \A i \in 1..Len(s) : IsDigit(s[i])

IsLeap(y) == (y % 4 = 0 /\ y % 100 # 0) \/ y % 400 = 0

DaysInMonth(y, m) ==
    IF m = 2 THEN (IF IsLeap(y) THEN 29 ELSE 28)
    ELSE IF m \in {4, 6, 9, 11} THEN 30 ELSE 31

NoDate == [ok |-> FALSE, y |-> 0, m |-> 0, d |-> 0]

\* %Y is exactly four digits, %m and %d one or two digits; the fields are
\* separated by "-"; the date must exist in the calendar.  ValueError is
\* the result with ok = FALSE.
strptime(s) ==
    LET dash == {i \in 1..Len(s) : s[i] = "-"}
    IN  IF Cardinality(dash) # 2 THEN NoDate
        ELSE LET i1 == SetMin(dash)
                 i2 == SetMax(dash)
                 ys == SubSeq(s, 1, i1 - 1)
                 ms == SubSeq(s, i1 + 1, i2 - 1)
                 ds == SubSeq(s, i2 + 1, Len(s))
             IN  IF ~ (/\ Len(ys) = 4 /\ AllDigits(ys)
                       /\ Len(ms) \in {1, 2} /\ AllDigits(ms)
                       /\ Len(ds) \in {1, 2} /\ AllDigits(ds))
                 THEN NoDate
                 ELSE LET y == NumVal(ys)
                          m == NumVal(ms)
                          d == NumVal(ds)
                      IN  IF /\ y >= 1
                             /\ m \in 1..12
                             /\ d \in 1..DaysInMonth(y, m)
                          THEN [ok |-> TRUE, y |-> y, m |-> m, d |-> d]
                          ELSE NoDate

Pad(n, w) == [i \in 1..w |-> Digits[((n \div (10 ^ (w - i))) % 10) + 1]]

strftime(dt) == Pad(dt.y, 4) \o <<"-">> \o Pad(dt.m, 2) \o <<"-">> \o Pad(dt.d, 2)

(***************************************************************************)
(* json.dump / json.load: a JSON object is a record whose fields are the   *)
(* members present in the text; Python None is written as null.            *)
(***************************************************************************)
JSONnull == <<"null">>

TextKeys == {"description", "category", "priority", "due_date"}

py_to_json(v) == IF v = None THEN JSONnull ELSE v

\* fault: null is left as it was read
json_to_py_keeps_null(v) == v

json_to_py(v) == IF v = JSONnull THEN None ELSE v

dump_task(t) == [k \in DOMAIN t |-> IF k \in TextKeys THEN py_to_json(t[k]) ELSE t[k]]

load_task(o) == [k \in DOMAIN o |-> IF k \in TextKeys THEN json_to_py(o[k]) ELSE o[k]]

\* json.dump(self.tasks, f, indent=2, ensure_ascii=False)
json_dump(st) ==
    [tasks |-> [i \in 1..Len(st.tasks) |-> dump_task(st.tasks[i])],
     next_id |-> st.next_id,
     metadata |-> st.metadata]

\* json.load(f) of a document that parsed
json_load(doc) ==
    [k \in DOMAIN doc |->
        IF k = "tasks" THEN [i \in 1..Len(doc.tasks) |-> load_task(doc.tasks[i])]
        ELSE doc[k]]

(***************************************************************************)
(* The data file and the backup directory                                  *)
(***************************************************************************)
NoDoc == [none |-> TRUE]

AbsentFile == [kind |-> "absent", doc |-> NoDoc, mtime |-> 0]

\* a file that exists and does not parse as JSON: empty, or cut short
GarbageFile(t) == [kind |-> "garbage", doc |-> NoDoc, mtime |-> t]

\* a file whose bytes are not UTF-8 text
UndecodableFile(t) == [kind |-> "undecodable", doc |-> NoDoc, mtime |-> t]

\* a file that parses as JSON and is no object: an array, a number, a
\* string, null
NonObjectFile(t) == [kind |-> "nonobject", doc |-> NoDoc, mtime |-> t]

JsonFile(doc, t) == [kind |-> "json", doc |-> doc, mtime |-> t]

fresh_metadata(t1, t2) ==
    [version |-> s_version, created |-> t1, last_modified |-> t2]

empty_store(t1, t2) ==
    [tasks |-> <<>>, next_id |-> 1, metadata |-> fresh_metadata(t1, t2)]

\* there is no TaskTracker: its constructor raised
NoStore ==
    [tasks |-> <<>>, next_id |-> 0,
     metadata |-> [version |-> <<>>, created |-> 0, last_modified |-> 0]]

\* fault: the default is assigned whether or not the key is there
SetDefault_overwrites(r, k, v) == (k :> v) @@ r

\* "if k not in r: r[k] = v"
SetDefault(r, k, v) == IF k \in DOMAIN r THEN r ELSE r @@ (k :> v)

migrate_task(t) ==
    SetDefault(SetDefault(SetDefault(t, "category", s_general),
                          "priority", s_medium),
               "due_date", None)

\* the number of characters of the text that json.dump(..., indent=2)
\* writes: empty_doc_size for a document without tasks and with a one-digit
\* next_id; two more for the line breaks of the first task; for a task,
\* empty_task_size with a one-digit id, empty strings and a null due date,
\* and the characters of its values
empty_doc_size == 171
empty_task_size == 238

RECURSIVE digits(_)
digits(n) == IF n < 10 THEN 1 ELSE 1 + digits(n \div 10)

status_size(s) ==
    CASE s = "todo" -> 4 [] s = "in-progress" -> 11 [] s = "done" -> 4

task_size(o) ==
    empty_task_size + (digits(o.id) - 1) + Len(o.description) + status_size(o.status)
        + Len(o.category) + Len(o.priority)
        + (IF o.due_date = JSONnull THEN 0 ELSE Len(o.due_date) - 2)

RECURSIVE tasks_size(_)
tasks_size(os) ==
    IF os = <<>> THEN 0 ELSE task_size(Head(os)) + tasks_size(Tail(os))

json_size(doc) ==
    empty_doc_size + (digits(doc.next_id) - 1)
        + (IF doc.tasks = <<>> THEN 0 ELSE 2 + tasks_size(doc.tasks))

\* the length of the data file; a file that does not parse as JSON has
\* its length in doc.size if it is not empty
file_size(f) ==
    IF f.kind = "json" THEN json_size(f.doc)
    ELSE IF "size" \in DOMAIN f.doc THEN f.doc.size
    ELSE 0

\* a process that has opened the file with mode 'w' writes its n characters
\* from position 0 when it closes the file; what the file held beyond
\* them stays, and JSON followed by more text does not parse
overwrite_file(f, st, t) ==
    IF json_size(json_dump(st)) >= file_size(f)
    THEN JsonFile(json_dump(st), t)
    ELSE [kind |-> "garbage", doc |-> [none |-> TRUE, size |-> file_size(f)],
          mtime |-> t]

\* TaskTracker._load_tasks; t1, t2 are the two timestamps read for a fresh
\* metadata block.  "except (json.JSONDecodeError, IOError)" catches what
\* json.load raises on text that is no JSON; the UnicodeDecodeError of
\* f.read() and the TypeError of data["tasks"] = [] on a value that is no
\* dict are neither, they leave _load_tasks and end the process (exit 1).
load_tasks(f, t1, t2) ==
    IF f.kind = "absent"
    THEN [store |-> empty_store(t1, t2), msg |-> "", exit |-> 0]
    ELSE IF f.kind = "garbage"
    THEN [store |-> empty_store(t1, t2), msg |-> "Error loading tasks file.",
          exit |-> 0]
    ELSE IF f.kind = "undecodable"
    THEN [store |-> NoStore, msg |-> "UnicodeDecodeError", exit |-> 1]
    ELSE IF f.kind = "nonobject"
    THEN [store |-> NoStore, msg |-> "TypeError", exit |-> 1]
    ELSE LET data == json_load(f.doc)
             tasks == IF "tasks" \in DOMAIN data THEN data.tasks ELSE <<>>
         IN  [store |->
                [tasks |-> [i \in 1..Len(tasks) |-> migrate_task(tasks[i])],
                 next_id |-> IF "next_id" \in DOMAIN data THEN data.next_id ELSE 1,
                 metadata |-> IF "metadata" \in DOMAIN data THEN data.metadata
                              ELSE fresh_metadata(t1, t2)],
              msg |-> "", exit |-> 0]

\* fault: sorted() without reverse=True, the oldest files come first
cleanup_keeps_oldest(bs) ==
    LET excess == IF Cardinality(bs) > backup_count
                  THEN Cardinality(bs) - backup_count ELSE 0
    IN  {bs \ D : D \in {X \in SUBSET bs :
                            /\ Cardinality(X) = excess
                            /\ \A d \in X : \A k \in bs \ X : d.mtime >= k.mtime}}

\* TaskTracker._cleanup_old_backups: the sets of backups that can remain.
\* sorted() orders by st_mtime, newest first; files of equal mtime stay in
\* the order glob() listed them, which the file system decides.
cleanup_old_backups(bs) ==
    LET excess == IF Cardinality(bs) > backup_count
                  THEN Cardinality(bs) - backup_count ELSE 0
    IN  {bs \ D : D \in {X \in SUBSET bs :
                            /\ Cardinality(X) = excess
                            /\ \A d \in X : \A k \in bs \ X : d.mtime <= k.mtime}}

\* strftime("%Y%m%d_%H%M%S") of a clock reading
backup_name(t) == t \div TicksPerSecond

NoFault == {"none"}

AllBackupFaults == {"none", "copy_error", "cleanup_error"}

\* fault: an error while the backup is made leaves the method
create_backup_raises(f, bs, t, fault) ==
    LET copy == [name |-> backup_name(t), kind |-> f.kind,
                 doc |-> f.doc, mtime |-> f.mtime]
        all == {b \in bs : b.name # copy.name} \cup {copy}
    IN  IF fault = "none"
        THEN {[backups |-> r, warn |-> "", exit |-> 0] : r \in cleanup_old_backups(all)}
        ELSE {[backups |-> bs, warn |-> "", exit |-> 1]}

\* TaskTracker._create_backup: the backups it can leave, the warning it
\* prints and whether the process goes on (exit = 0).  shutil.copy2 copies
\* content and mtime and replaces a backup of the same name; when it raises,
\* the backup is not there or is cut short, and the cleanup is not reached.
\* When _cleanup_old_backups raises, its own handler prints the warning:
\* some of the files it was to delete are still there.
create_backup(f, bs, t, fault) ==
    LET copy == [name |-> backup_name(t), kind |-> f.kind,
                 doc |-> f.doc, mtime |-> f.mtime]
        cut == [name |-> backup_name(t), kind |-> "garbage",
                doc |-> NoDoc, mtime |-> t]
        all == {b \in bs : b.name # copy.name} \cup {copy}
    IN  CASE fault = "none" ->
                {[backups |-> r, warn |-> "", exit |-> 0] : r \in cleanup_old_backups(all)}
          [] fault = "copy_error" ->
                {[backups |-> b, warn |-> "Warning: Could not create backup.", exit |-> 0] :
                    b \in {bs, {b \in bs : b.name # cut.name} \cup {cut}}}
          [] fault = "cleanup_error" ->
                UNION {{[backups |-> r \cup y,
                         warn |-> "Warning: Could not cleanup old backups.",
                         exit |-> 0] :
                            y \in {z \in SUBSET (all \ r) : z # {} \/ r = all}} :
                       r \in cleanup_old_backups(all)}

AllFaults == {"none", "open_error", "write_error", "interrupt"}

\* fault: the error is printed and the process goes on
write_outcome_goes_on(st, f, t, fault) ==
    CASE fault = "none" ->
            [file |-> JsonFile(json_dump(st), t), exit |-> 0, msg |-> ""]
      [] fault = "open_error" ->
            [file |-> f, exit |-> 0, msg |-> "Error saving tasks file."]
      [] fault = "write_error" ->
            [file |-> GarbageFile(t), exit |-> 0, msg |-> "Error saving tasks file."]
      [] fault = "interrupt" ->
            [file |-> GarbageFile(t), exit |-> 1, msg |-> "Operation cancelled by user."]

\* what open(..., 'w') followed by json.dump leaves on disk, and how the
\* process goes on
write_outcome(st, f, t, fault) ==
    CASE fault = "none" ->
            [file |-> JsonFile(json_dump(st), t), exit |-> 0, msg |-> ""]
      [] fault = "open_error" ->
            [file |-> f, exit |-> 1, msg |-> "Error saving tasks file."]
      [] fault = "write_error" ->
            [file |-> GarbageFile(t), exit |-> 1, msg |-> "Error saving tasks file."]
      [] fault = "interrupt" ->
            [file |-> GarbageFile(t), exit |-> 1, msg |-> "Operation cancelled by user."]

\* fault: last_modified is stamped after the data file was written
save_tasks_stamps_after_write(st, f, bs, t, faults, bfaults) ==
    LET made == IF backup_enabled /\ f.kind # "absent"
                THEN UNION {create_backup(f, bs, t, bf) : bf \in bfaults}
                ELSE {[backups |-> bs, warn |-> "", exit |-> 0]}
        st2 == [st EXCEPT !.metadata.last_modified = t]
    IN  {[store |-> st2, backups |-> b.backups, warn |-> b.warn]
             @@ write_outcome(st, f, t, fault) :
            b \in made, fault \in faults}

\* fault: the backup is made after the data file was written
save_tasks_backs_up_after(st, f, bs, t, faults, bfaults) ==
    LET st2 == [st EXCEPT !.metadata.last_modified = t]
    IN  UNION {{[store |-> st2, backups |-> b.backups, warn |-> b.warn]
                    @@ write_outcome(st2, f, t, fault) :
                  b \in UNION {create_backup(write_outcome(st2, f, t, fault).file,
                                             bs, t, bf) : bf \in bfaults}} :
               fault \in faults}

\* TaskTracker._save_tasks at clock reading t: the possible outcomes, with
\* faults what can go wrong with the data file and bfaults with the backup
save_tasks(st, f, bs, t, faults, bfaults) ==
    LET made == IF backup_enabled /\ f.kind # "absent"
                THEN UNION {create_backup(f, bs, t, bf) : bf \in bfaults}
                ELSE {[backups |-> bs, warn |-> "", exit |-> 0]}
        st2 == [st EXCEPT !.metadata.last_modified = t]
    IN  {IF b.exit # 0
         THEN [store |-> st, backups |-> b.backups, warn |-> b.warn, file |-> f,
               exit |-> b.exit, msg |-> "An unexpected error occurred."]
         ELSE [store |-> st2, backups |-> b.backups, warn |-> b.warn]
                  @@ write_outcome(st2, f, t, fault) :
            b \in made, fault \in faults}

(***************************************************************************)
(* The commands of TaskTracker.  Each returns the store it leaves in       *)
(* memory, the message it prints (without the task id and the other        *)
(* values formatted into it), whether it goes on to _save_tasks, and the   *)
(* task id its success message names.                                      *)
(***************************************************************************)
Result(st, msg, save, id) == [store |-> st, msg |-> msg, save |-> save, id |-> id]

\* TaskTracker._find_task_by_id: position of the first task with the id, 0 for None
find_task_by_id(tasks, task_id) ==
    LET hits == {i \in 1..Len(tasks) : tasks[i].id = task_id}
    IN  IF hits = {} THEN 0 ELSE SetMin(hits)

\* the validation of add_task: the error printed, "" if there is none
add_error(description, priority, due_date) ==
    IF strip(description) = <<>>
    THEN "Error: Task description cannot be empty."
    ELSE IF Len(strip(description)) > max_description_length
    THEN "Error: Task description too long."
    ELSE IF priority \notin SeqToSet(valid_priorities)
    THEN "Error: Invalid priority."
    ELSE IF Truthy(due_date) /\ ~ strptime(due_date).ok
    THEN "Error: Invalid due date format. Use YYYY-MM-DD format."
    ELSE ""

\* strptime(due, "%Y-%m-%d").strftime("%Y-%m-%d") where the code applies it
parse_due_date(due_date) ==
    IF Truthy(due_date) THEN strftime(strptime(due_date)) ELSE due_date

\* fault: the id is taken from the number of tasks
new_task_id_by_count(st) == Len(st.tasks) + 1

new_task_id(st) == st.next_id

\* fault: the counter skips an id
bump_next_id_by_two(n) == n + 2

bump_next_id(n) == n + 1

\* fault: the task is appended before the arguments are validated
add_task_appends_then_rejects(st, description, category, priority, due_date, now) ==
    LET err == add_error(description, priority, due_date)
        new_task == [id |-> new_task_id(st),
                     description |-> strip(description),
                     status |-> default_status,
                     category |-> lower(category),
                     priority |-> priority,
                     due_date |-> None,
                     createdAt |-> now,
                     updatedAt |-> now]
    IN  IF err # ""
        THEN Result([st EXCEPT !.tasks = Append(@, new_task)], err, FALSE, 0)
        ELSE Result([st EXCEPT !.tasks = Append(@, [new_task EXCEPT !.due_date =
                                    IF Truthy(due_date) THEN parse_due_date(due_date)
                                    ELSE None]),
                               !.next_id = bump_next_id(@)],
                    "Task added successfully", TRUE, new_task.id)

\* fault: the new task is put in front of the others
add_task_prepends(st, description, category, priority, due_date, now) ==
    LET err == add_error(description, priority, due_date)
        new_task == [id |-> new_task_id(st),
                     description |-> strip(description),
                     status |-> default_status,
                     category |-> lower(category),
                     priority |-> priority,
                     due_date |-> IF Truthy(due_date) THEN parse_due_date(due_date)
                                  ELSE None,
                     createdAt |-> now,
                     updatedAt |-> now]
    IN  IF err # ""
        THEN Result(st, err, FALSE, 0)
        ELSE Result([st EXCEPT !.tasks = <<new_task>> \o @,
                               !.next_id = bump_next_id(@)],
                    "Task added successfully", TRUE, new_task.id)

\* TaskTracker.add_task
add_task(st, description, category, priority, due_date, now) ==
    LET err == add_error(description, priority, due_date)
        new_task == [id |-> new_task_id(st),
                     description |-> strip(description),
                     status |-> default_status,
                     category |-> lower(category),
                     priority |-> priority,
                     due_date |-> IF Truthy(due_date) THEN parse_due_date(due_date)
                                  ELSE None,
                     createdAt |-> now,
                     updatedAt |-> now]
    IN  IF err # ""
        THEN Result(st, err, FALSE, 0)
        ELSE Result([st EXCEPT !.tasks = Append(@, new_task),
                               !.next_id = bump_next_id(@)],
                    "Task added successfully", TRUE, new_task.id)

\* the validation of update_task, in the order the code makes its checks
update_error(st, task_id, new_description, new_priority, new_due_date) ==
    IF strip(new_description) = <<>>
    THEN "Task description cannot be empty."
    ELSE IF Len(strip(new_description)) > max_description_length
    THEN "Task description too long."
    ELSE IF find_task_by_id(st.tasks, task_id) = 0
    THEN "Task not found."
    ELSE IF Truthy(new_priority) /\ new_priority \notin SeqToSet(valid_priorities)
    THEN "Invalid priority."
    ELSE IF Truthy(new_due_date) /\ ~ strptime(new_due_date).ok
    THEN "Invalid due date format. Use YYYY-MM-DD format."
    ELSE ""

\* fault: the test for None is missing
overwrite_always(new_value, old_value) == new_value

\* "if new_x is not None: task[x] = new_x"
overwrite(new_value, old_value) == IF new_value # None THEN new_value ELSE old_value

\* fault: the time of the update is written to createdAt
updated_task_stamps_created(task, new_description, new_category, new_priority, new_due_date, now) ==
    [task EXCEPT
        !.description = strip(new_description),
        !.category = overwrite(IF new_category # None THEN lower(new_category) ELSE None, @),
        !.priority = overwrite(new_priority, @),
        !.due_date = overwrite(parse_due_date(new_due_date), @),
        !.createdAt = now]

\* fault: an update puts the task back to the default status
updated_task_resets_status(task, new_description, new_category, new_priority, new_due_date, now) ==
    [task EXCEPT
        !.description = strip(new_description),
        !.status = default_status,
        !.category = overwrite(IF new_category # None THEN lower(new_category) ELSE None, @),
        !.priority = overwrite(new_priority, @),
        !.due_date = overwrite(parse_due_date(new_due_date), @),
        !.updatedAt = now]

\* the assignments of update_task to the task it found
updated_task(task, new_description, new_category, new_priority, new_due_date, now) ==
    [task EXCEPT
        !.description = strip(new_description),
        !.category = overwrite(IF new_category # None THEN lower(new_category) ELSE None, @),
        !.priority = overwrite(new_priority, @),
        !.due_date = overwrite(parse_due_date(new_due_date), @),
        !.updatedAt = now]

\* fault: the description is assigned before priority and due date are checked
update_task_partial(st, task_id, new_description, new_category, new_priority, new_due_date, now) ==
    LET err == update_error(st, task_id, new_description, new_priority, new_due_date)
        i == find_task_by_id(st.tasks, task_id)
    IN  IF err \in {"Invalid priority.", "Invalid due date format. Use YYYY-MM-DD format."}
        THEN Result([st EXCEPT !.tasks[i].description = strip(new_description)],
                    err, FALSE, 0)
        ELSE IF err # ""
        THEN Result(st, err, FALSE, 0)
        ELSE Result([st EXCEPT !.tasks[i] =
                        updated_task(@, new_description, new_category,
                                     new_priority, new_due_date, now)],
                    "Task updated successfully.", TRUE, task_id)

\* TaskTracker.update_task
update_task(st, task_id, new_description, new_category, new_priority, new_due_date, now) ==
    LET err == update_error(st, task_id, new_description, new_priority, new_due_date)
        i == find_task_by_id(st.tasks, task_id)
    IN  IF err # ""
        THEN Result(st, err, FALSE, 0)
        ELSE Result([st EXCEPT !.tasks[i] =
                        updated_task(@, new_description, new_category,
                                     new_priority, new_due_date, now)],
                    "Task updated successfully.", TRUE, task_id)

\* fault: next_id is recomputed from the number of tasks that remain
delete_task_resets_next_id(st, task_id) ==
    IF find_task_by_id(st.tasks, task_id) = 0
    THEN Result(st, "Task not found.", FALSE, 0)
    ELSE Result([st EXCEPT !.tasks = SelectSeq(@, LAMBDA t : t.id # task_id),
                           !.next_id = Len(SelectSeq(st.tasks, LAMBDA t : t.id # task_id)) + 1],
                "Task deleted successfully.", TRUE, task_id)

\* fault: the first task is removed, whatever its id
delete_task_drops_first(st, task_id) ==
    IF find_task_by_id(st.tasks, task_id) = 0
    THEN Result(st, "Task not found.", FALSE, 0)
    ELSE Result([st EXCEPT !.tasks = Tail(@)],
                "Task deleted successfully.", TRUE, task_id)

\* TaskTracker.delete_task
delete_task(st, task_id) ==
    IF find_task_by_id(st.tasks, task_id) = 0
    THEN Result(st, "Task not found.", FALSE, 0)
    ELSE Result([st EXCEPT !.tasks = SelectSeq(@, LAMBDA t : t.id # task_id)],
                "Task deleted successfully.", TRUE, task_id)

\* fault: the status is set and updatedAt is left as it was
mark_in_progress_keeps_stamp(st, task_id, now) ==
    LET i == find_task_by_id(st.tasks, task_id)
    IN  IF i = 0
        THEN Result(st, "Task not found.", FALSE, 0)
        ELSE IF st.tasks[i].status = "in-progress"
        THEN Result(st, "Task is already in progress.", FALSE, 0)
        ELSE Result([st EXCEPT !.tasks[i].status = "in-progress"],
                    "Task marked as in progress.", TRUE, task_id)

\* TaskTracker.mark_in_progress
mark_in_progress(st, task_id, now) ==
    LET i == find_task_by_id(st.tasks, task_id)
    IN  IF i = 0
        THEN Result(st, "Task not found.", FALSE, 0)
        ELSE IF st.tasks[i].status = "in-progress"
        THEN Result(st, "Task is already in progress.", FALSE, 0)
        ELSE Result([st EXCEPT !.tasks[i].status = "in-progress",
                               !.tasks[i].updatedAt = now],
                    "Task marked as in progress.", TRUE, task_id)

\* fault: the test for a task that is already done is missing
mark_done_always_restamps(st, task_id, now) ==
    LET i == find_task_by_id(st.tasks, task_id)
    IN  IF i = 0
        THEN Result(st, "Task not found.", FALSE, 0)
        ELSE Result([st EXCEPT !.tasks[i].status = "done",
                               !.tasks[i].updatedAt = now],
                    "Task marked as done.", TRUE, task_id)

\* fault: createdAt is stamped together with updatedAt
mark_done_restamps_created(st, task_id, now) ==
    LET i == find_task_by_id(st.tasks, task_id)
    IN  IF i = 0
        THEN Result(st, "Task not found.", FALSE, 0)
        ELSE IF st.tasks[i].status = "done"
        THEN Result(st, "Task is already done.", FALSE, 0)
        ELSE Result([st EXCEPT !.tasks[i].status = "done",
                               !.tasks[i].createdAt = now,
                               !.tasks[i].updatedAt = now],
                    "Task marked as done.", TRUE, task_id)

\* TaskTracker.mark_done
mark_done(st, task_id, now) ==
    LET i == find_task_by_id(st.tasks, task_id)
    IN  IF i = 0
        THEN Result(st, "Task not found.", FALSE, 0)
        ELSE IF st.tasks[i].status = "done"
        THEN Result(st, "Task is already done.", FALSE, 0)
        ELSE Result([st EXCEPT !.tasks[i].status = "done",
                               !.tasks[i].updatedAt = now],
                    "Task marked as done.", TRUE, task_id)

(***************************************************************************)
(* The queries of TaskTracker.  They read self.tasks and return lists and  *)
(* numbers.  A Python list is an object: a query that is handed the list   *)
(* of the store returns, besides its result, what that list holds when the *)
(* query is over ("arg") or whether its result is a new list ("fresh").    *)
(***************************************************************************)
\* the characters of the model, in the order of their code points: str
\* comparison is the lexicographic comparison of code points
CodePoints ==
    <<"\t", "\n", " ", "-", ".",
      "0", "1", "2", "3", "4", "5", "6", "7", "8", "9",
      "A", "B", "G", "N", "W",
      "a", "b", "d", "e", "g", "h", "i", "k", "l", "m", "n", "o", "p", "r",
      "s", "t", "u", "w">>

\* ord(c) of the characters of s
codes(s) == [i \in 1..Len(s) |-> CHOOSE k \in 1..Len(CodePoints) : CodePoints[k] = s[i]]

\* a < b for two sequences of numbers, as Python compares str and tuple
seq_less(a, b) ==
    \E k \in 1..(Len(a) + 1) :
        /\ \A i \in 1..(k - 1) : i <= Len(b) /\ a[i] = b[i]
        /\ k <= Len(b)
        /\ (k <= Len(a) => a[k] < b[k])

\* "q in s" for two str
contains(q, s) ==
    q = <<>> \/ \E i \in 1..(Len(s) - Len(q) + 1) : SubSeq(s, i, i + Len(q) - 1) = q

\* TaskTracker.search_tasks
search_tasks(st, query) ==
    SelectSeq(st.tasks, LAMBDA t : contains(lower(query), lower(t.description)))

\* the characters of a status
status_text(s) ==
    CASE s = "todo" -> <<"t", "o", "d", "o">>
      [] s = "in-progress" -> <<"i", "n", "-", "p", "r", "o", "g", "r", "e", "s", "s">>
      [] s = "done" -> <<"d", "o", "n", "e">>

\* list.index(x); the caller makes sure that x is in the list
index(s, x) == (CHOOSE i \in 1..Len(s) : s[i] = x) - 1

far_future == <<"9", "9", "9", "9", "-", "1", "2", "-", "3", "1">>

SortFields ==
    {"id", "description", "status", "priority", "category", "created", "updated",
     "due_date"}

\* sort_functions[sort_by](t), as a sequence of numbers
sort_key(sort_by, t) ==
    CASE sort_by = "id" -> <<t.id>>
      [] sort_by = "description" -> codes(lower(t.description))
      [] sort_by = "status" -> codes(status_text(t.status))
      [] sort_by = "priority" -> <<index(valid_priorities, t.priority)>>
      [] sort_by = "category" -> codes(t.category)
      [] sort_by = "created" -> <<t.createdAt>>
      [] sort_by = "updated" -> <<t.updatedAt>>
      [] sort_by = "due_date" -> codes(IF Truthy(t.due_date) THEN t.due_date
                                       ELSE far_future)

\* sorted(tasks, key=sort_functions[sort_by], reverse=reverse): a stable
\* sort, elements of equal key stay in the order of the input, with
\* reverse=True too
sorted(tasks, sort_by, reverse) ==
    LET n == Len(tasks)
        key(t) == sort_key(sort_by, t)
        before(i, j) ==
            IF key(tasks[i]) = key(tasks[j]) THEN i < j
            ELSE IF reverse THEN seq_less(key(tasks[j]), key(tasks[i]))
            ELSE seq_less(key(tasks[i]), key(tasks[j]))
        place(i) == 1 + Cardinality({j \in 1..n : before(j, i)})
    IN  [p \in 1..n |-> tasks[CHOOSE i \in 1..n : place(i) = p]]

\* fault: "tasks.sort(...); return tasks", the list that was passed in is
\* sorted in place
sort_tasks_in_place(tasks, sort_by, reverse) ==
    LET by == IF sort_by \in SortFields THEN sort_by ELSE "id"
        warn == IF sort_by \in SortFields THEN ""
                ELSE "Warning: Invalid sort field. Using 'id' instead."
    IN  IF by = "priority" /\ \E i \in 1..Len(tasks) :
                                 tasks[i].priority \notin SeqToSet(valid_priorities)
        THEN [raised |-> "ValueError", tasks |-> <<>>, arg |-> tasks, warn |-> warn]
        ELSE [raised |-> "", tasks |-> sorted(tasks, by, reverse),
              arg |-> sorted(tasks, by, reverse), warn |-> warn]

\* TaskTracker.sort_tasks.  valid_priorities.index raises ValueError for a
\* priority that is not in the list.
sort_tasks(tasks, sort_by, reverse) ==
    LET by == IF sort_by \in SortFields THEN sort_by ELSE "id"
        warn == IF sort_by \in SortFields THEN ""
                ELSE "Warning: Invalid sort field. Using 'id' instead."
    IN  IF by = "priority" /\ \E i \in 1..Len(tasks) :
                                 tasks[i].priority \notin SeqToSet(valid_priorities)
        THEN [raised |-> "ValueError", tasks |-> <<>>, arg |-> tasks, warn |-> warn]
        ELSE [raised |-> "", tasks |-> sorted(tasks, by, reverse),
              arg |-> tasks, warn |-> warn]

\* date.toordinal(): the number of the day, 0001-01-01 being day 1
days_before_year(y) ==
    (y - 1) * 365 + ((y - 1) \div 4) - ((y - 1) \div 100) + ((y - 1) \div 400)

RECURSIVE days_before_month(_, _)
days_before_month(y, m) ==
    IF m = 1 THEN 0 ELSE days_before_month(y, m - 1) + DaysInMonth(y, m - 1)

toordinal(dt) == days_before_year(dt.y) + days_before_month(dt.y, dt.m) + dt.d

\* (due_date - today).days for a stored due date that strptime accepts
days_until(due_date, today) == toordinal(strptime(due_date)) - toordinal(today)

\* the status argument of the queries: None and '' are both "no filter"
NoStatus == ""

\* fault: each filter is applied to the list that was passed in, not to
\* what the filters before it left
filter_tasks_last_wins(tasks, status, category, priority, due_soon, today) ==
    LET s1 == IF status # NoStatus
              THEN SelectSeq(tasks, LAMBDA t : t.status = status) ELSE tasks
        s2 == IF Truthy(category)
              THEN SelectSeq(tasks, LAMBDA t : t.category = lower(category)) ELSE s1
        s3 == IF Truthy(priority)
              THEN SelectSeq(tasks, LAMBDA t : t.priority = priority) ELSE s2
        unreadable == \E i \in 1..Len(tasks) :
                          Truthy(tasks[i].due_date) /\ ~ strptime(tasks[i].due_date).ok
        s4 == SelectSeq(tasks, LAMBDA t : /\ Truthy(t.due_date)
                                          /\ days_until(t.due_date, today) <= 7)
        fresh == status # NoStatus \/ Truthy(category) \/ Truthy(priority) \/ due_soon
    IN  IF due_soon /\ unreadable
        THEN [raised |-> "ValueError", tasks |-> <<>>, fresh |-> fresh]
        ELSE [raised |-> "", tasks |-> IF due_soon THEN s4 ELSE s3, fresh |-> fresh]

\* TaskTracker.filter_tasks, with today = datetime.now().date().  strptime
\* raises ValueError for a stored due date that it cannot read.
filter_tasks(tasks, status, category, priority, due_soon, today) ==
    LET s1 == IF status # NoStatus
              THEN SelectSeq(tasks, LAMBDA t : t.status = status) ELSE tasks
        s2 == IF Truthy(category)
              THEN SelectSeq(s1, LAMBDA t : t.category = lower(category)) ELSE s1
        s3 == IF Truthy(priority)
              THEN SelectSeq(s2, LAMBDA t : t.priority = priority) ELSE s2
        unreadable == \E i \in 1..Len(s3) :
                          Truthy(s3[i].due_date) /\ ~ strptime(s3[i].due_date).ok
        s4 == SelectSeq(s3, LAMBDA t : /\ Truthy(t.due_date)
                                       /\ days_until(t.due_date, today) <= 7)
        fresh == status # NoStatus \/ Truthy(category) \/ Truthy(priority) \/ due_soon
    IN  IF due_soon /\ unreadable
        THEN [raised |-> "ValueError", tasks |-> <<>>, fresh |-> fresh]
        ELSE [raised |-> "", tasks |-> IF due_soon THEN s4 ELSE s3, fresh |-> fresh]

\* status_counts of get_statistics
status_counts(tasks) ==
    [s \in SeqToSet(valid_statuses) |-> Len(SelectSeq(tasks, LAMBDA t : t.status = s))]

\* priority_counts of get_statistics
priority_counts(tasks) ==
    [p \in SeqToSet(valid_priorities) |-> Len(SelectSeq(tasks, LAMBDA t : t.priority = p))]

\* categories of get_statistics: the categories that occur
categories(tasks) ==
    [c \in {tasks[i].category : i \in 1..Len(tasks)} |->
        Len(SelectSeq(tasks, LAMBDA t : t.category = c))]

\* fault: three separate tests instead of if / elif / elif, so that a task
\* due today or overdue is counted in due_this_week as well
due_stats_overlapping(tasks, today) ==
    LET dated == SelectSeq(tasks, LAMBDA t : /\ Truthy(t.due_date)
                                             /\ strptime(t.due_date).ok)
    IN  [overdue |-> Len(SelectSeq(dated, LAMBDA t : days_until(t.due_date, today) < 0)),
         due_today |-> Len(SelectSeq(dated, LAMBDA t : days_until(t.due_date, today) = 0)),
         due_this_week |-> Len(SelectSeq(dated, LAMBDA t : days_until(t.due_date, today) <= 7))]

\* the due-date loop of get_statistics; a stored due date that strptime
\* cannot read is passed over
due_stats(tasks, today) ==
    LET dated == SelectSeq(tasks, LAMBDA t : /\ Truthy(t.due_date)
                                             /\ strptime(t.due_date).ok)
    IN  [overdue |-> Len(SelectSeq(dated, LAMBDA t : days_until(t.due_date, today) < 0)),
         due_today |-> Len(SelectSeq(dated, LAMBDA t : days_until(t.due_date, today) = 0)),
         due_this_week |-> Len(SelectSeq(dated, LAMBDA t :
                                             /\ days_until(t.due_date, today) > 0
                                             /\ days_until(t.due_date, today) <= 7))]

\* a float, as the fraction n/d in lowest terms
RECURSIVE gcd(_, _)
gcd(a, b) == IF b = 0 THEN a ELSE gcd(b, a % b)

Fraction(n, d) == [num |-> n \div gcd(n, d), den |-> d \div gcd(n, d)]

\* fault: "completed // total_tasks * 100", the integer division
completion_rate_floor(completed, total_tasks) ==
    Fraction((completed \div total_tasks) * 100, 1)

\* "completed / total_tasks * 100"
completion_rate(completed, total_tasks) ==
    LET q == Fraction(completed, total_tasks)
    IN  Fraction(q.num * 100, q.den)

\* seven days, in clock ticks
week == 7 * 24 * 60 * 60 * TicksPerSecond

\* weekly_stats of get_statistics
weekly_stats(tasks, now) ==
    [created_this_week |-> Len(SelectSeq(tasks, LAMBDA t : t.createdAt > now - week)),
     completed_this_week |->
        Len(SelectSeq(tasks, LAMBDA t : t.status = "done" /\ t.updatedAt > now - week))]

\* TaskTracker.get_statistics
get_statistics(st, today, now) ==
    LET tasks == st.tasks
        total_tasks == Len(tasks)
    IN  IF total_tasks = 0
        THEN [total |-> 0, message |-> "No tasks found"]
        ELSE [total |-> total_tasks,
              status_counts |-> status_counts(tasks),
              priority_counts |-> priority_counts(tasks),
              categories |-> categories(tasks),
              completion_rate |-> completion_rate(status_counts(tasks)["done"],
                                                  total_tasks),
              due_stats |-> due_stats(tasks, today),
              weekly_stats |-> weekly_stats(tasks, now)]

\* TaskTracker.list_tasks: the tasks it prints, the message it prints
\* instead, and what the list of the store holds when it returns
list_tasks(st, status_filter, category_filter, priority_filter, search_query, sort_by, reverse, due_soon, today) ==
    IF status_filter # NoStatus /\ status_filter \notin SeqToSet(valid_statuses)
    THEN [raised |-> "", tasks |-> <<>>, msg |-> "Invalid status.",
          store_tasks |-> st.tasks]
    ELSE LET found == IF Truthy(search_query) THEN search_tasks(st, search_query)
                      ELSE st.tasks
             f == filter_tasks(found, status_filter, category_filter,
                               priority_filter, due_soon, today)
             s == sort_tasks(f.tasks, sort_by, reverse)
             own == Truthy(search_query) \/ f.fresh
         IN  IF f.raised # ""
             THEN [raised |-> f.raised, tasks |-> <<>>, msg |-> "",
                   store_tasks |-> st.tasks]
             ELSE [raised |-> s.raised, tasks |-> s.tasks,
                   msg |-> IF s.raised = "" /\ s.tasks = <<>>
                           THEN "No tasks found." ELSE "",
                   store_tasks |-> IF own THEN st.tasks ELSE s.arg]

(***************************************************************************)
(* Arguments the commands are called with                                  *)
(***************************************************************************)
d_a == <<" ", "a", " ">>
d_Bb == <<"B", "b">>
d_empty == <<>>
d_blank == <<" ", "\t", " ">>
d_long == [i \in 1..(max_description_length + 1) |-> "a"]

c_Work == <<"W", "o", "r", "k">>
p_urgent == <<"u", "r", "g", "e", "n", "t">>

due_padded == <<"2", "0", "2", "4", "-", "0", "1", "-", "0", "5">>
due_short == <<"2", "0", "2", "4", "-", "1", "-", "5">>
due_no_such_day == <<"2", "0", "2", "4", "-", "0", "2", "-", "3", "0">>
due_words == <<"s", "o", "o", "n">>

Call(d, c, p, due) == [description |-> d, category |-> c, priority |-> p, due_date |-> due]

AddCalls ==
    {Call(d_a, s_general, s_medium, None),
     Call(d_Bb, c_Work, s_high, due_short),
     Call(d_a, s_general, s_medium, <<>>),
     Call(d_empty, c_Work, s_high, due_padded),
     Call(d_blank, s_general, s_medium, None),
     Call(d_long, s_general, s_medium, None),
     Call(d_a, c_Work, p_urgent, None),
     Call(d_a, s_general, <<>>, None),
     Call(d_a, c_Work, s_high, due_no_such_day),
     Call(d_Bb, s_general, s_medium, due_words)}

UpdateCalls ==
    {Call(d_Bb, None, None, None),
     Call(d_a, c_Work, s_low, None),
     Call(d_a, None, None, due_short),
     Call(d_Bb, <<>>, <<>>, <<>>),
     Call(d_empty, c_Work, s_high, due_padded),
     Call(d_blank, None, None, None),
     Call(d_long, c_Work, None, None),
     Call(d_a, c_Work, p_urgent, due_padded),
     Call(d_a, c_Work, s_high, due_no_such_day),
     Call(d_Bb, None, None, due_words)}

\* the ids of the tasks there are or were, and one that was never issued
TaskIds == 1..store.next_id

\* Data files the program may find at start.  A task as the current
\* add_task writes it, and the same task as a version without category,
\* priority or due date wrote it.
Restrict(r, K) == [k \in K |-> r[k]]

full_task(id, status, due) ==
    [id |-> id, description |-> d_Bb, status |-> status,
     category |-> lower(c_Work), priority |-> s_high, due_date |-> due,
     createdAt |-> 0, updatedAt |-> 0]

LegacyFields == {"category", "priority", "due_date"}

legacy_task(id, missing) ==
    LET t == full_task(id, "todo", due_padded)
    IN  Restrict(t, (DOMAIN t) \ missing)

full_doc(missing) ==
    [tasks |-> <<legacy_task(1, missing), full_task(2, "done", JSONnull)>>,
     next_id |-> 3,
     metadata |-> fresh_metadata(0, 0)]

\* documents that are JSON objects: some top-level members and some
\* members of the first task may be missing
LegacyDocs ==
    {Restrict(full_doc(m), K) : m \in SUBSET LegacyFields,
                                K \in SUBSET {"tasks", "next_id", "metadata"}}

LoadFiles ==
    {GarbageFile(0), UndecodableFile(0), NonObjectFile(0)}
        \cup {JsonFile(d, 0) : d \in LegacyDocs}

(***************************************************************************)
(* The state machine                                                       *)
(***************************************************************************)
Faults == IF faulty = "write" THEN AllFaults ELSE NoFault

BackupFaults == IF faulty = "backup" THEN AllBackupFaults ELSE NoFault

\* op: the command; msg: the message printed; id: the task id a success
\* message names; first: for a command that went on to save, whether it
\* was the first command of its TaskTracker; exit: the status the process
\* exited with, 0 while it runs; warn: the warning printed before msg
Output(op, first, id, msg, exit, warn) ==
    [op |-> op, first |-> first, id |-> id, msg |-> msg, exit |-> exit, warn |-> warn]

\* the process has made no query
NoQuery == [query |-> "none"]

\* TaskTracker(data_file) at time t on the data file f and the backups bs
\* that the program finds at start
InitTracker(f, bs, t, flt) ==
    /\ file = f
    /\ clock = t
    /\ store = load_tasks(f, t, t).store
    /\ out = Output("load", FALSE, 0, load_tasks(f, t, t).msg,
                    load_tasks(f, t, t).exit, "")
    /\ backups = bs
    /\ issued = <<>>
    /\ nops = 0
    /\ faulty = flt
    /\ shown = NoQuery

\* the live process is the only one that uses the data file
InitAt(f, bs, t, flt) == InitTracker(f, bs, t, flt) /\ procs = <<>>

InitWith(f, flt) == InitAt(f, {}, 0, flt)

\* first run: there is no data file
Init == InitWith(AbsentFile, "none")

\* an environment in which I/O can fail; the data file may also be the
\* empty file that the test suite's setUp creates
InitCrash == \E f \in {AbsentFile, GarbageFile(0)} : InitWith(f, "write")

\* a new process, or a new TaskTracker on the same data file
NewTracker ==
    /\ store' = load_tasks(file, clock, clock).store
    /\ out' = Output("load", FALSE, 0, load_tasks(file, clock, clock).msg,
                     load_tasks(file, clock, clock).exit, "")
    /\ shown' = NoQuery
    /\ UNCHANGED <<file, backups, clock, issued, nops, faulty, procs>>

\* a command of the live process: its handler, then _save_tasks if the
\* handler reaches it.  The command reads the clock once; when it is over
\* the clock reads later.  Run: time passes between commands (Tick), not
\* within one, so that the clock may be coarser than a command is long.
RunAt(op, r, later, maxops) ==
    /\ out.exit = 0
    /\ IF r.save
       THEN /\ nops < maxops
            /\ \E o \in save_tasks(r.store, file, backups, clock, Faults, BackupFaults) :
                  /\ store' = o.store
                  /\ file' = o.file
                  /\ backups' = o.backups
                  /\ out' = Output(op, out.op = "load", r.id,
                                   IF o.exit = 0 THEN r.msg ELSE o.msg, o.exit, o.warn)
            /\ nops' = nops + 1
       ELSE /\ store' = r.store
            /\ out' = Output(op, FALSE, 0, r.msg, 0, "")
            /\ UNCHANGED <<file, backups, nops>>
    /\ issued' = IF op = "add" /\ r.save THEN Append(issued, r.id) ELSE issued
    /\ clock' = later
    /\ UNCHANGED <<faulty, shown, procs>>

Run(op, r) == RunAt(op, r, clock, MaxOps)

AddTask ==
    \E c \in AddCalls :
        Run("add", add_task(store, c.description, c.category, c.priority, c.due_date, clock))

UpdateTask ==
    \E id \in TaskIds : \E c \in UpdateCalls :
        Run("update", update_task(store, id, c.description, c.category, c.priority,
                                  c.due_date, clock))

DeleteTask ==
    \E id \in TaskIds : Run("delete", delete_task(store, id))

MarkInProgress ==
    \E id \in TaskIds : Run("mark-in-progress", mark_in_progress(store, id, clock))

MarkDone ==
    \E id \in TaskIds : Run("mark-done", mark_done(store, id, clock))

\* time passes between commands
Tick ==
    /\ clock < MaxClock
    /\ clock' = clock + 1
    /\ UNCHANGED <<store, file, backups, out, issued, nops, faulty, shown, procs>>

Next ==
    \/ NewTracker
    \/ AddTask
    \/ UpdateTask
    \/ DeleteTask
    \/ MarkInProgress
    \/ MarkDone
    \/ Tick

Spec == Init /\ [][Next]_vars

SpecCrash == InitCrash /\ [][Next]_vars

\* Commands under a clock that is finer than a command is long, as
\* "%Y-%m-%d %H:%M:%S.%f" is: no two commands read the same time.  The
\* next command starts within the next second.
Later == {t \in (clock + 1)..(clock + TicksPerSecond) : t <= MaxTime}

AddTaskTimed ==
    /\ Len(store.tasks) < MaxTasks
    /\ \E later \in Later :
          RunAt("add", add_task(store, d_a, s_general, s_medium, None, clock),
                later, MaxSaves)

MarkInProgressWithin(maxops) ==
    \E id \in TaskIds : \E later \in Later :
        RunAt("mark-in-progress", mark_in_progress(store, id, clock), later, maxops)

MarkDoneWithin(maxops) ==
    \E id \in TaskIds : \E later \in Later :
        RunAt("mark-done", mark_done(store, id, clock), later, maxops)

MarkInProgressTimed == MarkInProgressWithin(MaxSaves)

MarkDoneTimed == MarkDoneWithin(MaxSaves)

NextTimed ==
    \/ AddTaskTimed
    \/ MarkInProgressTimed
    \/ MarkDoneTimed

SpecTimed == Init /\ [][NextTimed]_vars

\* the program is started, later than time 0, on a data file of two tasks
\* that it wrote at time 0: the first to do, the second done
InitMarks == InitAt(JsonFile(full_doc({}), 0), {}, 1, "none")

NextMarks ==
    \/ MarkInProgressWithin(MaxOps)
    \/ MarkDoneWithin(MaxOps)

SpecMarks == InitMarks /\ [][NextMarks]_vars

\* the program is started on a data file it did not write itself
InitLoad == \E f \in LoadFiles : InitWith(f, "none")

\* after the load: load again, or a command that saves the store as loaded
NextLoad ==
    \/ NewTracker
    \/ DeleteTask
    \/ MarkInProgress
    \/ MarkDone
    \/ Tick

SpecLoad == InitLoad /\ [][NextLoad]_vars

\* Earlier processes have filled the backup directory: an add and then
\* backup_count commands that each left a backup, one command a second, the
\* last one a second before this run starts at time 0.
EarlierCommands == backup_count + 1

RECURSIVE EarlierRuns(_)
\* the data file and the backups after the first n of these commands
EarlierRuns(n) ==
    IF n = 0
    THEN [file |-> AbsentFile, backups |-> {}]
    ELSE LET p == EarlierRuns(n - 1)
             t == (n - 1 - EarlierCommands) * TicksPerSecond
             st == load_tasks(p.file, t, t).store
             r == IF n = 1 THEN add_task(st, d_a, s_general, s_medium, None, t)
                  ELSE IF n % 2 = 0 THEN mark_in_progress(st, 1, t)
                  ELSE mark_done(st, 1, t)
             o == CHOOSE o \in save_tasks(r.store, p.file, p.backups, t,
                                          NoFault, NoFault) : TRUE
         IN  [file |-> o.file, backups |-> o.backups]

\* an environment in which the backup directory can fail
InitBackupFail ==
    InitAt(EarlierRuns(EarlierCommands).file, EarlierRuns(EarlierCommands).backups,
           0, "backup")

SpecBackupFail == InitBackupFail /\ [][NextLoad]_vars

(***************************************************************************)
(* A process that makes one query on a data file that earlier commands     *)
(* have left                                                               *)
(***************************************************************************)
date(y, m, d) == [ok |-> TRUE, y |-> y, m |-> m, d |-> d]

\* datetime.now().date() of the day the query is made
Todays == {date(2023, 12, 29), date(2024, 1, 5)}

query_task(id, description, status, category, priority, due, created, updated) ==
    [id |-> id, description |-> description, status |-> status,
     category |-> category, priority |-> priority, due_date |-> due,
     createdAt |-> created, updatedAt |-> updated]

\* the tasks of the data file: added with and without a due date, marked,
\* and one whose priority and due date an update has emptied
QueryTasks ==
    <<query_task(1, strip(d_a), "todo", s_general, s_medium, None, 0, 0),
      query_task(2, d_Bb, "done", lower(c_Work), s_high, due_padded, 0, 1),
      query_task(3, strip(d_a), "in-progress", lower(c_Work), s_low,
                 strftime(date(2023, 12, 28)), 0 - 2 * week, 0 - week),
      query_task(4, d_Bb, "todo", s_general, s_high, far_future, 0, 0),
      query_task(5, strip(d_a), "done", s_general, s_low,
                 strftime(date(2024, 1, 6)), 0 - 2 * week, 0 - 2 * week),
      query_task(6, d_Bb, "in-progress", lower(c_Work), s_medium,
                 strftime(date(2024, 1, 12)), 0, 1),
      query_task(7, d_Bb, "todo", s_general, <<>>, <<>>, 0, 1)>>

\* the store after the tasks outside S were deleted
query_store(S) ==
    [tasks |-> SelectSeq(QueryTasks, LAMBDA t : t.id \in S),
     next_id |-> Len(QueryTasks) + 1,
     metadata |-> fresh_metadata(0 - 2 * week, 1)]

InitQuery ==
    \E S \in SUBSET (1..Len(QueryTasks)) :
        InitAt(JsonFile(json_dump(query_store(S)), 1), {}, 1, "none")

\* a query of the live process: what it returns, the exception that leaves
\* it, what it prints, and the list of the store when it is over
Query(q, args, result, raised, msg, tasks_after) ==
    /\ out.exit = 0
    /\ shown = NoQuery
    /\ shown' = [query |-> q, args |-> args, result |-> result, raised |-> raised]
    /\ store' = [store EXCEPT !.tasks = tasks_after]
    /\ out' = Output(q, FALSE, 0,
                     IF raised = "" THEN msg ELSE "An unexpected error occurred.",
                     IF raised = "" THEN 0 ELSE 1, "")
    /\ UNCHANGED <<file, backups, clock, issued, nops, faulty, procs>>

\* the search command: search_tasks, then filter_tasks if a filter is given
SearchTasks ==
    \E query \in {<<"B">>, <<"a">>, <<>>} :
    \E status \in {NoStatus, "done"} : \E category \in {None, c_Work} :
        LET found == search_tasks(store, query)
            f == filter_tasks(found, status, category, None, FALSE,
                              CHOOSE d \in Todays : TRUE)
        IN  Query("search",
                  [query |-> query, status |-> status, category |-> category],
                  IF status # NoStatus \/ Truthy(category) THEN f.tasks ELSE found,
                  "", "", store.tasks)

\* filter_tasks on the tasks of the store
FilterTasks ==
    \E status \in {NoStatus, "todo", "in-progress", "done"} :
    \E category \in {None, <<>>, c_Work} : \E priority \in {None, s_high, s_medium} :
    \E due_soon \in BOOLEAN : \E today \in Todays :
        LET f == filter_tasks(store.tasks, status, category, priority, due_soon, today)
        IN  Query("filter",
                  [status |-> status, category |-> category, priority |-> priority,
                   due_soon |-> due_soon, today |-> today],
                  f.tasks, f.raised, "", store.tasks)

\* sort_tasks on the tasks of the store
SortTasks ==
    \E sort_by \in SortFields \cup {"size"} : \E reverse \in BOOLEAN :
        LET s == sort_tasks(store.tasks, sort_by, reverse)
        IN  Query("sort", [sort_by |-> sort_by, reverse |-> reverse],
                  s.tasks, s.raised, s.warn, s.arg)

\* the list command
ListTasks ==
    \E status \in {NoStatus, "done", "later"} : \E search \in {None, <<"B">>} :
    \E sort_by \in {"id", "priority", "due_date"} : \E reverse \in BOOLEAN :
    \E due_soon \in BOOLEAN :
        LET today == CHOOSE d \in Todays : TRUE
            l == list_tasks(store, status, None, None, search, sort_by, reverse,
                            due_soon, today)
        IN  Query("list",
                  [status |-> status, search |-> search, sort_by |-> sort_by,
                   reverse |-> reverse, due_soon |-> due_soon, today |-> today],
                  l.tasks, l.raised, l.msg, l.store_tasks)

\* the stats command
Statistics ==
    \E today \in Todays :
        Query("stats", [today |-> today], get_statistics(store, today, clock),
              "", "", store.tasks)

NextQuery ==
    \/ SearchTasks
    \/ FilterTasks
    \/ SortTasks
    \/ ListTasks
    \/ Statistics

SpecQuery == InitQuery /\ [][NextQuery]_vars

(***************************************************************************)
(* Two processes that each run one command on the same data file.  The     *)
(* steps of a process are the operations on the file system, which the     *)
(* operating system interleaves in any order with those of the other:      *)
(* _load_tasks reads the file; the handler changes the process's own       *)
(* self.tasks; _save_tasks copies the file to the backup directory, opens  *)
(* the file with mode 'w', which empties it, and writes the text when the  *)
(* with-block closes the file (json.dump fills the buffer of the file      *)
(* object; a text as short as the ones here is written in one piece).      *)
(***************************************************************************)
Procs == {1, 2}

\* earlier commands have left a data file with one task
InitRace ==
    /\ InitTracker(JsonFile(json_dump(
            [tasks |-> <<query_task(1, strip(d_a), "todo", s_general, s_medium,
                                    None, 0, 0)>>,
             next_id |-> 2,
             metadata |-> fresh_metadata(0, 0)]), 0), {}, 0, "none")
    /\ procs = [p \in Procs |-> [pc |-> "start", store |-> NoStore, wrote |-> 0]]

\* TaskTracker(data_file) in process p
StartProc(p) ==
    /\ procs[p].pc = "start"
    /\ load_tasks(file, clock, clock).exit = 0
    /\ procs' = [procs EXCEPT ![p].pc = "loaded",
                              ![p].store = load_tasks(file, clock, clock).store]
    /\ UNCHANGED <<store, file, backups, clock, out, issued, nops, faulty, shown>>

\* the commands a process is run with
RaceCommands(st, now) ==
    {add_task(st, d_Bb, c_Work, s_high, due_padded, now),
     mark_in_progress(st, 1, now),
     mark_done(st, 1, now),
     delete_task(st, 1)}

\* the handler of the command, up to its call of _save_tasks
CommandProc(p) ==
    /\ procs[p].pc = "loaded"
    /\ \E r \in RaceCommands(procs[p].store, clock) :
          procs' = [procs EXCEPT ![p].pc = IF r.save THEN "saving" ELSE "done",
                                 ![p].store = r.store]
    /\ UNCHANGED <<store, file, backups, clock, out, issued, nops, faulty, shown>>

\* _save_tasks: the backup, and the stamp on the metadata
BackupProc(p) ==
    /\ procs[p].pc = "saving"
    /\ IF backup_enabled /\ file.kind # "absent"
       THEN \E b \in create_backup(file, backups, clock, "none") : backups' = b.backups
       ELSE backups' = backups
    /\ procs' = [procs EXCEPT ![p].pc = "backed",
                              ![p].store.metadata.last_modified = clock]
    /\ UNCHANGED <<store, file, clock, out, issued, nops, faulty, shown>>

\* _save_tasks: open(self.data_file, 'w')
OpenProc(p) ==
    /\ procs[p].pc = "backed"
    /\ file' = GarbageFile(clock)
    /\ procs' = [procs EXCEPT ![p].pc = "open"]
    /\ UNCHANGED <<store, backups, clock, out, issued, nops, faulty, shown>>

\* the saves that are over
Written == {procs[q].wrote : q \in Procs} \ {0}

\* _save_tasks: the end of the with-block; wrote is the place of this save
\* among the saves, in the order they finished
WriteProc(p) ==
    /\ procs[p].pc = "open"
    /\ file' = overwrite_file(file, procs[p].store, clock)
    /\ procs' = [procs EXCEPT ![p].pc = "done",
                              ![p].wrote = Cardinality(Written) + 1]
    /\ UNCHANGED <<store, backups, clock, out, issued, nops, faulty, shown>>

NextRace ==
    \/ \E p \in Procs : StartProc(p)
    \/ \E p \in Procs : CommandProc(p)
    \/ \E p \in Procs : BackupProc(p)
    \/ \E p \in Procs : OpenProc(p)
    \/ \E p \in Procs : WriteProc(p)
    \/ Tick

SpecRace == InitRace /\ [][NextRace]_vars

(***************************************************************************)
(* Vocabulary of the properties                                            *)
(***************************************************************************)
\* the step is a command that went on to _save_tasks
Saved == nops' = nops + 1

TaskIdsOf(st) == {st.tasks[i].id : i \in 1..Len(st.tasks)}

IssuedIds == SeqToSet(issued)

\* what a new TaskTracker would read from the data file f
Reloaded(f) == load_tasks(f, clock, clock).store

AddErrors ==
    {"Error: Task description cannot be empty.",
     "Error: Task description too long.",
     "Error: Invalid priority.",
     "Error: Invalid due date format. Use YYYY-MM-DD format."}

UpdateErrors ==
    {"Task description cannot be empty.",
     "Task description too long.",
     "Task not found.",
     "Invalid priority.",
     "Invalid due date format. Use YYYY-MM-DD format."}

AlreadyNotices == {"Task is already in progress.", "Task is already done."}

\* the store, the data file and the backups are what they were
NothingWritten == store' = store /\ file' = file /\ backups' = backups

(***************************************************************************)
(* C1: every successful add gives the new task the id next_id held before  *)
(* the call, that id is one more than the id the previous add gave, and    *)
(* afterwards next_id is the largest id issued so far plus one.            *)
(***************************************************************************)
C1_AddIssuesConsecutiveIds ==
    [][(Saved /\ out'.op = "add") =>
          /\ Len(store'.tasks) = Len(store.tasks) + 1
          /\ store'.tasks[Len(store'.tasks)].id = store.next_id
          /\ out'.id = store.next_id
          /\ issued # <<>> => out'.id = issued[Len(issued)] + 1
          /\ store'.next_id = SetMax(IssuedIds') + 1]_vars

C1_Witness ==
    /\ out.op = "add" /\ out.msg = "Task added successfully"
    /\ issued = <<1, 2, 3>>
    /\ store.next_id = 4

(***************************************************************************)
(* C2: next_id is greater than the id of every task in the store and than  *)
(* every id ever issued, and no step makes next_id smaller.                *)
(***************************************************************************)
C2_NextIdAboveAllIds ==
    /\ [](/\ \A id \in TaskIdsOf(store) : id < store.next_id
          /\ \A id \in IssuedIds : id < store.next_id)
    /\ [][store'.next_id >= store.next_id]_vars

\* the task with the highest id was deleted and the store loaded again
C2_Witness ==
    /\ out.op = "load"
    /\ issued = <<1, 2>>
    /\ TaskIdsOf(store) = {1}
    /\ store.next_id = 3

(***************************************************************************)
(* C3: no two tasks of the store share an id, and an add never gives out   *)
(* an id that was issued before, whether or not the task that had it was   *)
(* deleted and the store loaded again in between.                          *)
(***************************************************************************)
C3_IdsUniqueNeverReused ==
    /\ [](\A i, j \in 1..Len(store.tasks) :
             store.tasks[i].id = store.tasks[j].id => i = j)
    /\ [][(Saved /\ out'.op = "add") => out'.id \notin IssuedIds]_vars

\* an add as the first command of a TaskTracker loaded after a delete
C3_Witness ==
    /\ out.op = "add" /\ out.msg = "Task added successfully" /\ out.first
    /\ \E id \in IssuedIds : id \notin TaskIdsOf(store) /\ id < out.id

(***************************************************************************)
(* C4: whatever happens during a save, the data file afterwards is the     *)
(* document it held before or the complete new document.                   *)
(***************************************************************************)
C4_SaveIsAtomic ==
    [][\/ file' = file
       \/ file'.kind = "json" /\ file'.doc = json_dump(store')]_vars

(***************************************************************************)
(* C5: a new TaskTracker on the data file the live one last saved holds    *)
(* the same task sequence, field for field and in the same order, and the  *)
(* same next_id.                                                           *)
(***************************************************************************)
C5_SaveLoadRoundTrip ==
    [][(out'.op = "load" /\ out.exit = 0 /\ file.kind = "json") =>
          /\ store'.tasks = store.tasks
          /\ store'.next_id = store.next_id]_vars

\* loaded after two saves: two tasks, one without and one with a due date
C5_Witness ==
    /\ out.op = "load" /\ nops >= 2
    /\ Len(store.tasks) = 2
    /\ \E i, j \in 1..2 : store.tasks[i].due_date = None /\ store.tasks[j].due_date # None

InvalidAddCall(c) ==
    \/ strip(c.description) = <<>>
    \/ Len(strip(c.description)) > max_description_length
    \/ c.priority \notin {s_low, s_medium, s_high}
    \/ Truthy(c.due_date) /\ ~ strptime(c.due_date).ok

C7_RejectedAddIsNoOp ==
    /\ [](\A c \in AddCalls :
            LET r == add_task(store, c.description, c.category, c.priority,
                              c.due_date, clock)
            IN  /\ InvalidAddCall(c) => r.msg \in AddErrors
                /\ r.msg \in AddErrors => ~ r.save /\ r.store = store)
    /\ [][(out'.op = "add" /\ out'.msg \in AddErrors) => NothingWritten]_vars

\* an add with an unknown priority was refused by a store that has a task on file
C7_Witness ==
    /\ out.op = "add" /\ out.msg = "Error: Invalid priority."
    /\ Len(store.tasks) >= 1
    /\ file.kind = "json"

(***************************************************************************)
(* C8: mark-done of a task that is done, and mark-in-progress of a task    *)
(* that is in progress, print the "already" notice, not "not found", and   *)
(* change nothing: no field of the task, not metadata.last_modified, not   *)
(* the data file, not the backups.                                         *)
(***************************************************************************)
C8_AlreadyInStatusIsNoOp ==
    /\ [](\A i \in 1..Len(store.tasks) :
            LET t == store.tasks[i]
            IN  /\ (t.status = "done" /\ find_task_by_id(store.tasks, t.id) = i) =>
                      mark_done(store, t.id, clock) =
                          Result(store, "Task is already done.", FALSE, 0)
                /\ (t.status = "in-progress" /\ find_task_by_id(store.tasks, t.id) = i) =>
                      mark_in_progress(store, t.id, clock) =
                          Result(store, "Task is already in progress.", FALSE, 0))
    /\ [][out'.msg \in AlreadyNotices => NothingWritten]_vars

\* mark-done was called on a done task, later than the task was marked done
C8_Witness ==
    /\ out.op = "mark-done" /\ out.msg = "Task is already done."
    /\ \E i \in 1..Len(store.tasks) :
          store.tasks[i].status = "done" /\ store.tasks[i].updatedAt < clock

(***************************************************************************)
(* C9: a successful update gives the task the trimmed new description,     *)
(* overwrites category, priority and due date where one was supplied (not  *)
(* None) and only there, keeps the task's id, status and createdAt, stamps *)
(* updatedAt with the current time, and leaves the other tasks and next_id *)
(* as they were.                                                           *)
(***************************************************************************)
UpdateFrame(old, new, task_id, c, now) ==
    LET i == find_task_by_id(old.tasks, task_id)
    IN  /\ i > 0
        /\ Len(new.tasks) = Len(old.tasks)
        /\ new.next_id = old.next_id
        /\ \A j \in 1..Len(old.tasks) : j # i => new.tasks[j] = old.tasks[j]
        /\ new.tasks[i].id = old.tasks[i].id
        /\ new.tasks[i].status = old.tasks[i].status
        /\ new.tasks[i].createdAt = old.tasks[i].createdAt
        /\ new.tasks[i].updatedAt = now
        /\ new.tasks[i].description = strip(c.description)
        /\ new.tasks[i].category =
              IF c.category = None THEN old.tasks[i].category ELSE lower(c.category)
        /\ new.tasks[i].priority =
              IF c.priority = None THEN old.tasks[i].priority ELSE c.priority
        /\ new.tasks[i].due_date =
              IF c.due_date = None THEN old.tasks[i].due_date
              ELSE IF c.due_date = <<>> THEN <<>>
              ELSE strftime(strptime(c.due_date))

C9_UpdateFrame ==
    /\ [](\A id \in TaskIds : \A c \in UpdateCalls :
            LET r == update_task(store, id, c.description, c.category, c.priority,
                                 c.due_date, clock)
            IN  r.save => UpdateFrame(store, r.store, id, c, clock))
    /\ [][(Saved /\ out'.op = "update") =>
             \E c \in UpdateCalls : UpdateFrame(store, store', out'.id, c, clock)]_vars

\* the first of two tasks was updated, with a category and a priority, at a
\* later time than it was created
C9_Witness ==
    /\ out.op = "update" /\ out.msg = "Task updated successfully." /\ out.id = 1
    /\ Len(store.tasks) = 2
    /\ store.tasks[1].category = lower(c_Work)
    /\ store.tasks[1].priority = s_low
    /\ store.tasks[1].updatedAt > store.tasks[1].createdAt

(***************************************************************************)
(* C10: an update, delete, mark-in-progress or mark-done that fails (no    *)
(* task has the id; for update also a description that is empty or too     *)
(* long, a priority or a due date that is refused) changes no field of any *)
(* task, not next_id, and writes neither the data file nor a backup.       *)
(***************************************************************************)
Failed(r) == ~ r.save /\ r.msg \in UpdateErrors

C10_FailedCommandIsNoOp ==
    /\ [](\A id \in TaskIds :
            /\ \A c \in UpdateCalls :
                  LET r == update_task(store, id, c.description, c.category,
                                       c.priority, c.due_date, clock)
                  IN  /\ ~ r.save => Failed(r) /\ r.store = store
                      /\ id \notin TaskIdsOf(store) => Failed(r)
            /\ LET r == delete_task(store, id)
               IN  /\ Failed(r) => r.store = store
                   /\ id \notin TaskIdsOf(store) => Failed(r)
            /\ LET r == mark_in_progress(store, id, clock)
               IN  /\ Failed(r) => r.store = store
                   /\ id \notin TaskIdsOf(store) => Failed(r)
            /\ LET r == mark_done(store, id, clock)
               IN  /\ Failed(r) => r.store = store
                   /\ id \notin TaskIdsOf(store) => Failed(r))
    /\ [][(/\ out'.op \in {"update", "delete", "mark-in-progress", "mark-done"}
           /\ out'.msg \in UpdateErrors) => NothingWritten]_vars

\* an update with a category and an unknown priority was refused
C10_Witness ==
    /\ out.op = "update" /\ out.msg = "Invalid priority."
    /\ Len(store.tasks) >= 1
    /\ file.kind = "json"

(***************************************************************************)
(* C11: a TaskTracker made on a data file whose content is not valid JSON  *)
(* (an empty file, text that does not parse, bytes that are no text) is    *)
(* made without an exception: it prints the load error and starts from an  *)
(* empty store with next_id = 1 and a metadata block stamped at the load.  *)
(***************************************************************************)
NotJsonKinds == {"garbage", "undecodable"}

C11_InvalidJsonLoadsEmpty ==
    (out.op = "load" /\ file.kind \in NotJsonKinds) =>
        /\ out.exit = 0
        /\ out.msg = "Error loading tasks file."
        /\ store.tasks = <<>>
        /\ store.next_id = 1
        /\ store.metadata.version = s_version
        /\ store.metadata.created = store.metadata.last_modified
        /\ store.metadata.created <= clock

(***************************************************************************)
(* C12: a TaskTracker made on a data file that parses as JSON and lacks    *)
(* tasks, next_id or metadata is made without failure: a missing tasks     *)
(* becomes the empty list, a missing next_id 1, a missing metadata a block *)
(* stamped at the load, and the members the file has are kept as read.     *)
(***************************************************************************)
ParsesAsJson == {"json", "nonobject"}

TopLevelFields == {"tasks", "next_id", "metadata"}

\* the top-level members the data file has
MembersOf(f) == IF f.kind = "json" THEN DOMAIN f.doc ELSE {}

C12_MissingFieldsBackfilled ==
    (/\ out.op = "load"
     /\ file.kind \in ParsesAsJson
     /\ TopLevelFields \ MembersOf(file) # {}) =>
        /\ out.exit = 0
        /\ out.msg = ""
        /\ IF "tasks" \in MembersOf(file)
           THEN /\ Len(store.tasks) = Len(file.doc.tasks)
                /\ \A i \in 1..Len(store.tasks) :
                      \A k \in DOMAIN file.doc.tasks[i] :
                          store.tasks[i][k] = load_task(file.doc.tasks[i])[k]
           ELSE store.tasks = <<>>
        /\ store.next_id = IF "next_id" \in MembersOf(file)
                           THEN file.doc.next_id ELSE 1
        /\ IF "metadata" \in MembersOf(file)
           THEN store.metadata = file.doc.metadata
           ELSE /\ store.metadata.version = s_version
                /\ store.metadata.created = store.metadata.last_modified
                /\ store.metadata.created <= clock

(***************************************************************************)
(* C13: a load gives a task record that lacks category, priority or        *)
(* due_date exactly "general", "medium" and None for the ones it lacks and *)
(* adds nothing else; what the record has is what the load gives; a second *)
(* load of the same file, and a load of the file a save of the migrated    *)
(* store wrote, give the same task records; a load writes neither the data *)
(* file nor a backup.                                                      *)
(***************************************************************************)
MigrationDefaults ==
    [category |-> s_general, priority |-> s_medium, due_date |-> None]

\* the task record o of a data file, as a load must give it
Migrated(o) ==
    [k \in (DOMAIN o) \cup LegacyFields |->
        IF k \in DOMAIN o
        THEN (IF k \in TextKeys /\ o[k] = JSONnull THEN None ELSE o[k])
        ELSE MigrationDefaults[k]]

C13_MigrationFillsGapsOnly ==
    /\ []((out.op = "load" /\ file.kind = "json" /\ "tasks" \in DOMAIN file.doc) =>
            /\ Len(store.tasks) = Len(file.doc.tasks)
            /\ \A i \in 1..Len(store.tasks) :
                  store.tasks[i] = Migrated(file.doc.tasks[i]))
    /\ [][(out.op = "load" /\ out'.op = "load") => store'.tasks = store.tasks]_vars
    /\ [][Saved => Reloaded(file').tasks = store'.tasks]_vars
    /\ [][out'.op = "load" => (file' = file /\ backups' = backups)]_vars

\* loaded from the file that a save of the migrated store wrote: the first
\* task has the defaults it was given when the older file was loaded
C13_Witness ==
    /\ out.op = "load" /\ nops >= 1
    /\ Len(store.tasks) = 2
    /\ store.tasks[1].category = s_general
    /\ store.tasks[1].priority = s_medium
    /\ store.tasks[1].due_date = None
    /\ file.doc.tasks[1].due_date = JSONnull

(***************************************************************************)
(* C14: when the save of a command does not get the store into the data    *)
(* file, the failure is printed and the process ends with a status other   *)
(* than 0; after that no command runs on the store left in memory: the     *)
(* next thing that happens is a new process that loads the data file.      *)
(***************************************************************************)
\* the step is a save after which the data file is not the store's document
WriteFailed == Saved /\ file' # JsonFile(json_dump(store'), clock)

C14_WriteFailureIsFatal ==
    /\ [][WriteFailed =>
             /\ out'.exit # 0
             /\ out'.msg \in {"Error saving tasks file.",
                              "Operation cancelled by user."}]_vars
    /\ [][out.exit # 0 =>
             \/ out'.op = "load" /\ store' = Reloaded(file) /\ file' = file
             \/ UNCHANGED <<store, file, backups, out, nops, issued>>]_vars

\* the write of an add failed part-way: the process has ended, the task is
\* in memory and not in the data file
C14_Witness ==
    /\ out.op = "add" /\ out.exit = 1 /\ out.msg = "Error saving tasks file."
    /\ file.kind = "garbage"
    /\ Len(store.tasks) >= 1

(***************************************************************************)
(* C16: there are never more than backup_count backup files; a save that   *)
(* makes a backup removes a backup file only when, with the new one, there *)
(* are more than backup_count, removes no more than the surplus, and every *)
(* file it removes was modified no later than every file it keeps.         *)
(***************************************************************************)
BackupNames(bs) == {b.name : b \in bs}

\* the backup files by name and modification time
BackupStamps(bs) == {[name |-> b.name, mtime |-> b.mtime] : b \in bs}

C16_BackupRetention ==
    /\ [](/\ Cardinality(backups) <= backup_count
          /\ Cardinality(BackupNames(backups)) = Cardinality(backups))
    /\ [][(Saved /\ file.kind # "absent") =>
             LET made == [name |-> backup_name(clock), mtime |-> file.mtime]
                 \* the files there are when the new backup is written
                 before == {b \in BackupStamps(backups) : b.name # made.name}
                               \cup {made}
                 removed == before \ BackupStamps(backups')
             IN  /\ BackupStamps(backups') \subseteq before
                 /\ Cardinality(backups') =
                       IF Cardinality(before) > backup_count
                       THEN backup_count ELSE Cardinality(before)
                 /\ removed # {} => Cardinality(before) > backup_count
                 /\ \A d \in removed : \A k \in backups' : d.mtime <= k.mtime]_vars

\* the seventh save found five backups, made the sixth and removed the oldest
C16_Witness ==
    /\ nops = MaxSaves
    /\ Cardinality(backups) = backup_count
    /\ 0 \notin BackupNames(backups)
    /\ backup_name(store.metadata.last_modified) \in BackupNames(backups)

(***************************************************************************)
(* C17: a save that finds a data file leaves a backup, named by the second *)
(* of the save, that is the data file as it was before the save and not as *)
(* the save writes it; a save that finds no data file leaves the backups   *)
(* as they are; nothing but a save changes the backups.                    *)
(***************************************************************************)
C17_BackupBeforeOverwrite ==
    /\ [][(Saved /\ file.kind # "absent") =>
             \E b \in backups' :
                 /\ b.name = backup_name(clock)
                 /\ b.kind = file.kind
                 /\ b.doc = file.doc
                 /\ b.mtime = file.mtime
                 /\ b.doc # file'.doc]_vars
    /\ [][(Saved /\ file.kind = "absent") => backups' = backups]_vars
    /\ [][backups' # backups => (Saved /\ file.kind # "absent")]_vars

\* the task was added and marked done: the backup taken by the second save
\* holds the task as the add had written it
C17_Witness ==
    /\ out.op = "mark-done" /\ nops = 2
    /\ file.doc.tasks[1].status = "done"
    /\ \E b \in backups :
          /\ b.name = backup_name(store.metadata.last_modified)
          /\ b.doc.tasks[1].status = "todo"
          /\ b.doc.metadata.last_modified < file.doc.metadata.last_modified

(***************************************************************************)
(* C15: when the copy of the data file to the backup directory fails, or   *)
(* the removal of old backups fails, the save prints a warning, still      *)
(* writes the store to the data file, and the command ends as a success:   *)
(* its message is the success message and the process goes on.             *)
(***************************************************************************)
SuccessMessages ==
    {"Task added successfully", "Task updated successfully.",
     "Task deleted successfully.", "Task marked as in progress.",
     "Task marked as done."}

\* the step is a save that did not leave the backup directory as a backup
\* and a cleanup without fault leave it
BackupFailed ==
    /\ Saved /\ file.kind # "absent"
    /\ \/ ~ \E b \in backups' :
               /\ b.name = backup_name(clock) /\ b.kind = file.kind
               /\ b.doc = file.doc /\ b.mtime = file.mtime
       \/ Cardinality(backups') > backup_count

C15_BackupFailureIsNotFatal ==
    /\ [][BackupFailed => out'.warn # ""]_vars
    /\ [][Saved =>
             /\ out'.exit = 0
             /\ out'.msg \in SuccessMessages
             /\ file' = JsonFile(json_dump(store'), clock)
             /\ store'.metadata.last_modified = clock]_vars

\* the removal of the oldest backup failed: six backups are left, the warning
\* was printed, the task is marked and saved
C15_Witness ==
    /\ out.op = "mark-done" /\ out.msg = "Task marked as done." /\ out.exit = 0
    /\ out.warn = "Warning: Could not cleanup old backups."
    /\ Cardinality(backups) = backup_count + 1
    /\ file.doc = json_dump(store)
    /\ store.tasks[1].status = "done"

(***************************************************************************)
(* C18: when an add, update, delete, mark-in-progress or mark-done has     *)
(* printed its success message, the data file is the document of the whole *)
(* store in memory (tasks, next_id, metadata), a load of it gives that     *)
(* store back, and the command has set metadata.last_modified, in memory   *)
(* and in the file, to the time of its save.                               *)
(***************************************************************************)
C18_SuccessIsPersisted ==
    /\ [](out.msg \in SuccessMessages =>
            /\ file.kind = "json"
            /\ file.doc = json_dump(store)
            /\ DOMAIN file.doc = TopLevelFields
            /\ json_load(file.doc) = store)
    /\ [][Saved =>
             /\ out'.msg \in SuccessMessages
             /\ store'.metadata.last_modified = clock
             /\ file'.doc.metadata.last_modified = clock
             /\ file'.mtime = clock]_vars
    /\ [][(out'.msg \in SuccessMessages /\ out' # out) => Saved]_vars

\* an update at a later time than the store was created: last_modified has
\* moved, the file holds the updated task
C18_Witness ==
    /\ out.op = "update" /\ out.msg = "Task updated successfully."
    /\ store.metadata.last_modified > store.metadata.created
    /\ file.doc.metadata.last_modified = store.metadata.last_modified
    /\ file.doc.tasks[1].description = d_Bb

(***************************************************************************)
(* C19: every task of the store has a description that is trimmed and not  *)
(* empty, a status among todo, in-progress, done, a priority among low,    *)
(* medium, high, a category in lower case, and a due date that is None or  *)
(* a date of the calendar written YYYY-MM-DD.                              *)
(***************************************************************************)
IsCalendarDate(s) == strptime(s).ok /\ strftime(strptime(s)) = s

WellFormed(t) ==
    /\ t.description # <<>>
    /\ strip(t.description) = t.description
    /\ t.status \in SeqToSet(valid_statuses)
    /\ t.priority \in {s_low, s_medium, s_high}
    /\ lower(t.category) = t.category
    /\ t.due_date = None \/ IsCalendarDate(t.due_date)

C19_TasksWellFormed ==
    \A i \in 1..Len(store.tasks) : WellFormed(store.tasks[i])

(***************************************************************************)
(* C20: mark-done and mark-in-progress of a task that exists and is not in *)
(* the target status succeed; the task then has the target status and an   *)
(* updatedAt, the time of the command, that is not the one it had; its id, *)
(* description, category, priority, due_date and createdAt, the other      *)
(* tasks and next_id are as they were.                                     *)
(***************************************************************************)
Target(op) == IF op = "mark-done" THEN "done" ELSE "in-progress"

MarkFrame(old, new, task_id, target, now) ==
    LET i == find_task_by_id(old.tasks, task_id)
    IN  /\ i > 0
        /\ old.tasks[i].status # target
        /\ Len(new.tasks) = Len(old.tasks)
        /\ new.next_id = old.next_id
        /\ \A j \in 1..Len(old.tasks) : j # i => new.tasks[j] = old.tasks[j]
        /\ new.tasks[i].status = target
        /\ new.tasks[i].updatedAt # old.tasks[i].updatedAt
        /\ new.tasks[i].updatedAt = now
        /\ \A k \in (DOMAIN old.tasks[i]) \ {"status", "updatedAt"} :
              new.tasks[i][k] = old.tasks[i][k]
        /\ DOMAIN new.tasks[i] = DOMAIN old.tasks[i]

C20_MarkChangesStatusAndStamp ==
    /\ [](\A i \in 1..Len(store.tasks) :
            LET t == store.tasks[i]
            IN  /\ t.status # "done" =>
                      LET r == mark_done(store, t.id, clock)
                      IN  r.save /\ MarkFrame(store, r.store, t.id, "done", clock)
                /\ t.status # "in-progress" =>
                      LET r == mark_in_progress(store, t.id, clock)
                      IN  r.save /\ MarkFrame(store, r.store, t.id, "in-progress", clock))
    /\ [][(Saved /\ out'.op \in {"mark-done", "mark-in-progress"}) =>
             /\ out'.msg \in {"Task marked as done.", "Task marked as in progress."}
             /\ MarkFrame(store, store', out'.id, Target(out'.op), clock)]_vars

\* the first of two tasks was marked in progress and then done
C20_Witness ==
    /\ out.op = "mark-done" /\ out.msg = "Task marked as done." /\ out.id = 1
    /\ nops = 2
    /\ Len(store.tasks) = 2
    /\ store.tasks[1].status = "done"
    /\ store.tasks[1].updatedAt > store.tasks[1].createdAt
    /\ store.tasks[1].due_date = due_padded
    /\ store.tasks[2].updatedAt = store.tasks[2].createdAt

(***************************************************************************)
(* C21: createdAt is immutable.  add stamps it with the current time, and   *)
(* in every step (update, a mark, the delete of another task, the save and *)
(* a reload of the data file) a task that exists before and after the step *)
(* has the createdAt it had, in memory and in the data file.               *)
(***************************************************************************)
SameCreatedAt(old, new) ==
    \A i \in 1..Len(old.tasks) : \A j \in 1..Len(new.tasks) :
        new.tasks[j].id = old.tasks[i].id =>
            new.tasks[j].createdAt = old.tasks[i].createdAt

\* the tasks written in the data file f
FileTasks(f) == IF f.kind = "json" THEN f.doc ELSE [tasks |-> <<>>]

C21_CreatedAtImmutable ==
    [][/\ SameCreatedAt(store, store')
       /\ SameCreatedAt(FileTasks(file), FileTasks(file'))
       /\ (Saved /\ out'.op = "add") =>
             \E j \in 1..Len(store'.tasks) :
                 /\ store'.tasks[j].id = out'.id
                 /\ store'.tasks[j].createdAt = clock]_vars

\* a task made at time 0 was updated and marked done later, and the data
\* file was read again
C21_Witness ==
    /\ out.op = "load" /\ nops = MaxOps
    /\ \E i \in 1..Len(store.tasks) :
          /\ store.tasks[i].createdAt = 0
          /\ store.tasks[i].updatedAt > 0
          /\ store.tasks[i].status = "done"
          /\ store.tasks[i].description = d_Bb

(***************************************************************************)
(* C22: in every reachable state every task, in memory and in the data     *)
(* file, has updatedAt >= createdAt: add stamps both with the same clock   *)
(* reading, and a later restamp of updatedAt is not earlier than createdAt.*)
(***************************************************************************)
StampsOrdered(tasks) ==
    \A i \in 1..Len(tasks) : tasks[i].updatedAt >= tasks[i].createdAt

C22_UpdatedNotBeforeCreated ==
    /\ [](StampsOrdered(store.tasks) /\ StampsOrdered(FileTasks(file).tasks))
    /\ [][(Saved /\ out'.op = "add") =>
             \E j \in 1..Len(store'.tasks) :
                 /\ store'.tasks[j].id = out'.id
                 /\ store'.tasks[j].createdAt = clock
                 /\ store'.tasks[j].updatedAt = clock]_vars

\* the first task was updated later than it was made, and a second task
\* has just been added
C22_Witness ==
    /\ out.op = "add" /\ out.msg = "Task added successfully" /\ Len(store.tasks) = 2
    /\ store.tasks[1].updatedAt > store.tasks[1].createdAt
    /\ store.tasks[1].description = d_Bb
    /\ store.tasks[2].updatedAt = store.tasks[2].createdAt
    /\ store.tasks[2].createdAt = clock

(***************************************************************************)
(* C28: todo is only an initial status.  A task gets status todo when it   *)
(* is added and from no other operation; the only changes of a task's      *)
(* status are to in-progress (from todo or done, by mark-in-progress) and  *)
(* to done (from todo or in-progress, by mark-done); so a task that is not *)
(* todo is never todo again, and update never changes the status.          *)
(***************************************************************************)
StatusStep(old, new, op) ==
    \/ new = old
    \/ new = "in-progress" /\ old \in {"todo", "done"} /\ op = "mark-in-progress"
    \/ new = "done" /\ old \in {"todo", "in-progress"} /\ op = "mark-done"

C28_TodoOnlyInitial ==
    /\ [](\A id \in TaskIds : \A c \in UpdateCalls :
            LET r == update_task(store, id, c.description, c.category, c.priority,
                                 c.due_date, clock)
            IN  \A i \in 1..Len(r.store.tasks) :
                    r.store.tasks[i].status = store.tasks[i].status)
    /\ [][\A j \in 1..Len(store'.tasks) :
             LET new == store'.tasks[j]
             IN  /\ \A i \in 1..Len(store.tasks) :
                        store.tasks[i].id = new.id =>
                            StatusStep(store.tasks[i].status, new.status, out'.op)
                 /\ new.id \notin TaskIdsOf(store) =>
                        out'.op = "add" /\ new.status = "todo"]_vars

\* a task that was marked done has been updated and is still done
C28_Witness ==
    /\ out.op = "update" /\ out.msg = "Task updated successfully."
    /\ \E i \in 1..Len(store.tasks) :
          /\ store.tasks[i].id = out.id
          /\ store.tasks[i].status = "done"
          /\ store.tasks[i].description = d_Bb

(***************************************************************************)
(* C29: starting from an empty store, in every reachable state (after any  *)
(* add, update, delete, mark, save and reload) the task sequence, in       *)
(* memory and in the data file, is in strictly increasing id order.        *)
(***************************************************************************)
IdsIncrease(tasks) ==
    \A i \in 1..Len(tasks) : \A j \in 1..Len(tasks) :
        i < j => tasks[i].id < tasks[j].id

C29_TasksInIdOrder ==
    IdsIncrease(store.tasks) /\ IdsIncrease(FileTasks(file).tasks)

\* three tasks were added one after the other
C29_Witness ==
    /\ out.op = "add" /\ out.id = 3
    /\ Len(store.tasks) = 3
    /\ FileTasks(file).tasks = store.tasks

(***************************************************************************)
(* C23: sort_tasks by priority returns the tasks in the order low, medium, *)
(* high, and with reverse=True in the order high, medium, low; by due_date *)
(* it returns the dated tasks in ascending order of their dates with every *)
(* task that has no due date after all dated tasks, and with reverse=True  *)
(* the dated tasks in descending order with every task that has no due     *)
(* date before all dated tasks.                                            *)
(***************************************************************************)
SameTasks(a, b) ==
    Len(a) = Len(b) /\ \A i \in 1..Len(a) : \E j \in 1..Len(b) : b[j] = a[i]

Dated(t) == Truthy(t.due_date)

InOrder(r, ok(_, _)) == \A i \in 1..Len(r) : \A j \in 1..Len(r) : i < j => ok(r[i], r[j])

C23_SortByPriorityAndDueDate ==
    (shown.query = "sort" /\ shown.args.sort_by \in {"priority", "due_date"}) =>
        LET r == shown.result
            rank(t) == index(valid_priorities, t.priority)
            day(t) == toordinal(strptime(t.due_date))
        IN  /\ shown.raised = ""
            /\ SameTasks(r, store.tasks)
            /\ (shown.args.sort_by = "priority" /\ ~ shown.args.reverse) =>
                   InOrder(r, LAMBDA a, b : rank(a) <= rank(b))
            /\ (shown.args.sort_by = "priority" /\ shown.args.reverse) =>
                   InOrder(r, LAMBDA a, b : rank(a) >= rank(b))
            /\ (shown.args.sort_by = "due_date" /\ ~ shown.args.reverse) =>
                   InOrder(r, LAMBDA a, b :
                              /\ (Dated(a) /\ Dated(b)) => day(a) <= day(b)
                              /\ ~ (~ Dated(a) /\ Dated(b)))
            /\ (shown.args.sort_by = "due_date" /\ shown.args.reverse) =>
                   InOrder(r, LAMBDA a, b :
                              /\ (Dated(a) /\ Dated(b)) => day(a) >= day(b)
                              /\ ~ (Dated(a) /\ ~ Dated(b)))

(***************************************************************************)
(* C24: filters compose by AND.  For the tasks of the store and every      *)
(* combination of status, category, priority and due-soon filters,         *)
(* filter_tasks returns exactly the tasks that satisfy every filter that   *)
(* was supplied, in their original order: the tasks that are in the result *)
(* of each of the filters applied alone.                                   *)
(***************************************************************************)
Satisfies(t, a) ==
    /\ a.status # NoStatus => t.status = a.status
    /\ Truthy(a.category) => t.category = lower(a.category)
    /\ Truthy(a.priority) => t.priority = a.priority
    /\ a.due_soon => (Dated(t) /\ toordinal(strptime(t.due_date)) <= toordinal(a.today) + 7)

C24_FiltersComposeByAnd ==
    shown.query = "filter" =>
        LET a == shown.args
            alone == <<filter_tasks(store.tasks, a.status, None, None, FALSE, a.today),
                       filter_tasks(store.tasks, NoStatus, a.category, None, FALSE, a.today),
                       filter_tasks(store.tasks, NoStatus, None, a.priority, FALSE, a.today),
                       filter_tasks(store.tasks, NoStatus, None, None, a.due_soon, a.today)>>
        IN  /\ shown.raised = ""
            /\ shown.result = SelectSeq(store.tasks, LAMBDA t : Satisfies(t, a))
            /\ shown.result = SelectSeq(store.tasks, LAMBDA t :
                                  \A k \in 1..4 : t \in SeqToSet(alone[k].tasks))

\* the four filters were given together on the seven tasks: each of them
\* alone keeps more than the one task that satisfies all four
C24_Witness ==
    /\ shown.query = "filter" /\ shown.raised = ""
    /\ shown.args.status = "done" /\ shown.args.category = c_Work
    /\ shown.args.priority = s_high /\ shown.args.due_soon
    /\ Len(store.tasks) = Len(QueryTasks)
    /\ Len(shown.result) = 1 /\ shown.result[1].id = 2

(***************************************************************************)
(* C25: for every store state get_statistics reports status_counts with an *)
(* entry for each of the three statuses, zero counts included, each equal  *)
(* to the number of tasks that have the status, and completion_rate equal  *)
(* to done-count / total x 100.                                            *)
(***************************************************************************)
NumberWith(status) ==
    Cardinality({i \in 1..Len(store.tasks) : store.tasks[i].status = status})

CountsAndRate(r) ==
    /\ "status_counts" \in DOMAIN r
    /\ DOMAIN r.status_counts = {"todo", "in-progress", "done"}
    /\ \A s \in DOMAIN r.status_counts : r.status_counts[s] = NumberWith(s)
    /\ "completion_rate" \in DOMAIN r
    /\ r.completion_rate.den > 0
    /\ r.completion_rate.num * Len(store.tasks) =
           NumberWith("done") * 100 * r.completion_rate.den

C25_StatisticsForEveryStore ==
    shown.query = "stats" => CountsAndRate(shown.result)

(***************************************************************************)
(* C25, amended: for every store that has at least one task get_statistics *)
(* reports status_counts with an entry for each of the three statuses,     *)
(* zero counts included, each equal to the number of tasks that have the   *)
(* status, and completion_rate equal to done-count / total x 100; for the  *)
(* empty store it reports total 0 and the message "No tasks found", and    *)
(* neither status_counts nor completion_rate.                              *)
(***************************************************************************)
C25_StatisticsForNonEmptyStore ==
    shown.query = "stats" =>
        IF store.tasks = <<>>
        THEN shown.result = [total |-> 0, message |-> "No tasks found"]
        ELSE shown.result.total = Len(store.tasks) /\ CountsAndRate(shown.result)

\* three tasks, one of them done and none in progress: the rate is 100/3
C25_Witness ==
    /\ shown.query = "stats"
    /\ Len(store.tasks) = 3
    /\ shown.result.status_counts = [s \in {"todo", "in-progress", "done"} |->
                                        CASE s = "todo" -> 2
                                          [] s = "in-progress" -> 0
                                          [] s = "done" -> 1]
    /\ shown.result.completion_rate = [num |-> 100, den |-> 3]

(***************************************************************************)
(* C26: the due-date buckets of get_statistics partition the dated tasks.  *)
(* A task is counted in overdue exactly when its due date is before today, *)
(* in due_today exactly when it is today, in due_this_week exactly when it *)
(* is 1 to 7 days after today; no task is counted in more than one bucket, *)
(* and a task without a due date or due more than 7 days from today is     *)
(* counted in none.                                                        *)
(***************************************************************************)
\* the number of days from today to the due date of a dated task
DaysAhead(t, today) == toordinal(strptime(t.due_date)) - toordinal(today)

\* the bucket of a task: one for each task, by its due date
Bucket(t, today) ==
    IF ~ Dated(t) THEN "none"
    ELSE IF DaysAhead(t, today) < 0 THEN "overdue"
    ELSE IF DaysAhead(t, today) = 0 THEN "due_today"
    ELSE IF DaysAhead(t, today) \in 1..7 THEN "due_this_week"
    ELSE "none"

C26_DueBucketsPartition ==
    (shown.query = "stats" /\ store.tasks # <<>>) =>
        LET today == shown.args.today
            d == shown.result.due_stats
            In(b) == {i \in 1..Len(store.tasks) : Bucket(store.tasks[i], today) = b}
        IN  /\ DOMAIN d = {"overdue", "due_today", "due_this_week"}
            /\ \A b \in DOMAIN d : d[b] = Cardinality(In(b))
            /\ d.overdue + d.due_today + d.due_this_week + Cardinality(In("none"))
                   = shown.result.total

\* the seven tasks on 2024-01-05: one is overdue, one is due today, two are
\* due in the week (one of them on the seventh day), one is due later, one
\* is due on 9999-12-31 and two have no due date
C26_Witness ==
    /\ shown.query = "stats" /\ shown.args.today = date(2024, 1, 5)
    /\ Len(store.tasks) = Len(QueryTasks)
    /\ shown.result.due_stats = [overdue |-> 1, due_today |-> 1, due_this_week |-> 2]

(***************************************************************************)
(* C30: queries are read-only.  search_tasks, filter_tasks, sort_tasks,    *)
(* list_tasks and get_statistics leave the task sequence of the store, its *)
(* order, every field of every task, next_id and the metadata as they      *)
(* were, do not write the data file and make no backup; sort_tasks returns *)
(* a new list, and the list it was given keeps its order.                  *)
(***************************************************************************)
C30_QueriesAreReadOnly ==
    [][shown'.query \in {"search", "filter", "sort", "list", "stats"} =>
          /\ store' = store
          /\ file' = file
          /\ backups' = backups
          /\ nops' = nops]_vars

\* list was called without a filter, so that sort_tasks was handed the
\* list of the store itself: what it returned is in another order, and the
\* store is in the order of the ids
C30_Witness ==
    /\ shown.query = "list" /\ shown.raised = ""
    /\ shown.args.status = NoStatus /\ shown.args.search = None
    /\ ~ shown.args.due_soon
    /\ shown.args.sort_by = "due_date" /\ shown.args.reverse
    /\ Len(store.tasks) = Len(QueryTasks)
    /\ SameTasks(shown.result, store.tasks)
    /\ shown.result # store.tasks
    /\ IdsIncrease(store.tasks)
    /\ FileTasks(file).tasks = [i \in 1..Len(store.tasks) |-> dump_task(store.tasks[i])]

(***************************************************************************)
(* C27: last writer wins.  When two processes each run load, one mutation  *)
(* and save on the same data file, with their steps interleaved in any     *)
(* order, the file at the end is exactly the complete store of the process *)
(* whose save finished last (the snapshot it loaded with its one mutation) *)
(* and never a mixture of the two.                                         *)
(***************************************************************************)
C27_LastWriterWins ==
    \A p \in DOMAIN procs :
        (/\ \A q \in DOMAIN procs : procs[q].pc = "done"
         /\ procs[p].wrote = Cardinality(Written)
         /\ procs[p].wrote > 0) =>
            /\ file.kind = "json"
            /\ file.doc = json_dump(procs[p].store)

====
